---- MODULE Spec2Model ----
(***************************************************************************)
(* Model of the MLB sabermetrics engine (src/src/sabermetrics_engine.py).  *)
(*                                                                         *)
(* The engine is a set of numeric formulas over stat records (Python       *)
(* dicts).  A state of the model is the engine's two constant tables plus  *)
(* the last call made on it: the operation, its arguments and its outcome  *)
(* (a returned value or a raised exception).                               *)
(*                                                                         *)
(* Numbers are exact rationals [num, den] in lowest terms with den > 0, so *)
(* equality of values is equality of the records.  Python computes with    *)
(* IEEE doubles; rounding of the last bit is not represented.              *)
(***************************************************************************)
EXTENDS Integers, Sequences, FiniteSets, TLC

VARIABLES
    league_constants,   \* self.league_constants
    woba_weights,       \* self.woba_weights
    op,                 \* name of the method of the last call ("__init__" at first)
    stats,              \* first record argument of the call
    stats2,             \* second record argument (compare_players)
    park_factor,        \* park_factor argument
    league_obp,         \* league_obp argument (calculate_ops_plus)
    league_slg,         \* league_slg argument (calculate_ops_plus)
    metrics,            \* metrics argument of compare_players ("None" or a list)
    fielding_stats,     \* fielding_stats argument (calculate_war_approximation)
    position,           \* position argument (calculate_war_approximation)
    result,             \* outcome of the call
    callers,            \* the calls in progress of the callers that share the engine
    response,           \* what the request of the last fetch did: data or an exception
    stats_data,         \* stats_data argument of process_batting_stats / process_pitching_stats
    stat_group,         \* index of stat_group in the loop over stats_data['stats'] (0: no loop)
    batting_stats,      \* the local batting_stats (pitching_stats) of the processing call
    sample_data,        \* sample_data['batters'] in the order of its items: team and stats
    player,             \* index of player in the loop over the batters (0: no loop)
    team_stats          \* the local team_stats of demo_team_analysis

vars == <<league_constants, woba_weights, op, stats, stats2, park_factor,
          league_obp, league_slg, metrics, fielding_stats, position, result, callers,
          response, stats_data, stat_group, batting_stats, sample_data, player, team_stats>>

\* the state of the data collector
collector == <<response, stats_data, stat_group, batting_stats>>

\* the state of the team aggregation
aggregation == <<sample_data, player, team_stats>>

\* what the calls of the single caller on the engine leave alone
others == <<callers, collector, aggregation>>

-----------------------------------------------------------------------------
(* Exact rational arithmetic                                               *)

Abs(i) == IF i < 0 THEN -i ELSE i

RECURSIVE GCD(_, _)
GCD(a, b) == IF b = 0 THEN a ELSE GCD(b, a % b)

\* n/d in lowest terms with a positive denominator (d # 0)
Frac(n, d) ==
    LET g == GCD(Abs(n), Abs(d))
        s == IF d < 0 THEN -1 ELSE 1
    IN  [num |-> (s * n) \div g, den |-> (s * d) \div g]

R(i) == [num |-> i, den |-> 1]
Zero == R(0)
One == R(1)

RAdd(x, y) ==
    LET l == (x.den \div GCD(x.den, y.den)) * y.den
    IN  Frac(x.num * (l \div x.den) + y.num * (l \div y.den), l)

RNeg(x) == [num |-> -x.num, den |-> x.den]

RSub(x, y) == RAdd(x, RNeg(y))

RMul(x, y) ==
    LET g1 == GCD(Abs(x.num), y.den)
        g2 == GCD(Abs(y.num), x.den)
    IN  Frac((x.num \div g1) * (y.num \div g2), (x.den \div g2) * (y.den \div g1))

\* x / y for y # 0
RDiv(x, y) == RMul(x, Frac(y.den, y.num))

RLt(x, y) == RSub(x, y).num < 0
RGt(x, y) == RLt(y, x)
RLe(x, y) == ~RLt(y, x)

\* the largest integer that is at most x
RFloor(x) == x.num \div x.den

\* the integer nearest to x, the even one of two that are equally near
RRound(x) ==
    LET f == RFloor(x)
        twice == RSub(RMul(R(2), x), R(2 * f))
    IN  IF RGt(twice, One) THEN f + 1
        ELSE IF RLt(twice, One) THEN f
        ELSE IF f % 2 = 0 THEN f ELSE f + 1

\* x rounded to n decimals, as round(x, n) and the format f"{x:.nf}" give it
RoundTo(x, n) == Frac(RRound(RMul(x, R(10 ^ n))), 10 ^ n)

-----------------------------------------------------------------------------
(* binary64 arithmetic                                                     *)
(*                                                                         *)
(* Python's float is an IEEE-754 double and every operation on it rounds   *)
(* the exact result to the nearest double, ties to even.  A double is      *)
(* [neg, m, e] with value (-1)^neg * m * 2^e, where the mantissa m is a    *)
(* natural number of exactly MantissaBits bits, or [FALSE, <<>>, 0] for    *)
(* zero (0.0 and -0.0 compare equal in Python and are one value here).     *)
(* Naturals too large for one integer are little-endian sequences of limbs *)
(* in base 2^14 without leading zero limbs; <<>> is 0.  The exponent is    *)
(* unbounded: the engine's values stay far from overflow and underflow.    *)

\* bits in the mantissa of a double
MantissaBits == 53

LimbBits == 14
LimbBase == 2 ^ LimbBits

RECURSIVE BTrim(_)
BTrim(x) ==
    IF x = <<>> THEN x
    ELSE IF x[Len(x)] = 0 THEN BTrim(SubSeq(x, 1, Len(x) - 1)) ELSE x

RECURSIVE BFromInt(_)
BFromInt(n) == IF n = 0 THEN <<>> ELSE <<n % LimbBase>> \o BFromInt(n \div LimbBase)

BHead(x) == IF x = <<>> THEN 0 ELSE Head(x)
BTail(x) == IF x = <<>> THEN <<>> ELSE Tail(x)

RECURSIVE BAddC(_, _, _)
BAddC(x, y, c) ==
    IF x = <<>> /\ y = <<>> THEN (IF c = 0 THEN <<>> ELSE <<c>>)
    ELSE LET t == BHead(x) + BHead(y) + c
         IN  <<t % LimbBase>> \o BAddC(BTail(x), BTail(y), t \div LimbBase)

BAdd(x, y) == BAddC(x, y, 0)

\* x - y - b for x >= y + b, before trimming
RECURSIVE BSubB(_, _, _)
BSubB(x, y, b) ==
    IF x = <<>> THEN <<>>
    ELSE LET t == Head(x) - BHead(y) - b
         IN  IF t < 0 THEN <<t + LimbBase>> \o BSubB(Tail(x), BTail(y), 1)
             ELSE <<t>> \o BSubB(Tail(x), BTail(y), 0)

BSub(x, y) == BTrim(BSubB(x, y, 0))

\* -1, 0 or 1 as x < y, x = y or x > y
RECURSIVE BCmpFrom(_, _, _)
BCmpFrom(x, y, i) ==
    IF i = 0 THEN 0
    ELSE IF x[i] < y[i] THEN -1
    ELSE IF x[i] > y[i] THEN 1
    ELSE BCmpFrom(x, y, i - 1)

BCmp(x, y) ==
    IF Len(x) < Len(y) THEN -1
    ELSE IF Len(x) > Len(y) THEN 1
    ELSE BCmpFrom(x, y, Len(x))

\* x * k + c for 0 <= k, c < LimbBase
RECURSIVE BMulLimb(_, _, _)
BMulLimb(x, k, c) ==
    IF x = <<>> THEN (IF c = 0 THEN <<>> ELSE <<c>>)
    ELSE LET t == Head(x) * k + c
         IN  <<t % LimbBase>> \o BMulLimb(Tail(x), k, t \div LimbBase)

RECURSIVE BMul(_, _)
BMul(x, y) ==
    IF x = <<>> \/ y = <<>> THEN <<>>
    ELSE BTrim(BAdd(BMulLimb(x, Head(y), 0), <<0>> \o BMul(x, Tail(y))))

Zeros(n) == [i \in 1..n |-> 0]

\* x * 2^n
BShl(x, n) ==
    IF x = <<>> THEN <<>>
    ELSE Zeros(n \div LimbBits) \o BMulLimb(x, 2 ^ (n % LimbBits), 0)

\* floor(x / 2^n)
BShr(x, n) ==
    LET drop == n \div LimbBits
        r == n % LimbBits
        y == IF drop >= Len(x) THEN <<>> ELSE SubSeq(x, drop + 1, Len(x))
    IN  BTrim([i \in 1..Len(y) |->
                  (y[i] \div (2 ^ r))
                  + (IF i < Len(y) THEN (y[i + 1] % (2 ^ r)) * (2 ^ (LimbBits - r)) ELSE 0)])

RECURSIVE IntBitLen(_)
IntBitLen(n) == IF n = 0 THEN 0 ELSE 1 + IntBitLen(n \div 2)

BBitLen(x) == IF x = <<>> THEN 0 ELSE (Len(x) - 1) * LimbBits + IntBitLen(x[Len(x)])

BIsOdd(x) == x # <<>> /\ x[1] % 2 = 1

Limb(x, i) == IF i <= Len(x) THEN x[i] ELSE 0

\* the largest limb k <= guess with k * d <= r
RECURSIVE BQuotientLimb(_, _, _)
BQuotientLimb(guess, r, d) ==
    IF BCmp(BTrim(BMulLimb(d, guess, 0)), r) > 0
    THEN BQuotientLimb(guess - 1, r, d)
    ELSE guess

\* the quotient st.q with the limb k appended, and what is left of r2
BDivLimb(st, d, r2, k) ==
    [q |-> BTrim(<<k>> \o st.q), r |-> BSub(r2, BTrim(BMulLimb(d, k, 0)))]

\* one step of long division in base LimbBase, for a divisor d whose top limb
\* is at least LimbBase / 2 and a remainder st.r < d: the next limb of the
\* quotient is guessed from the top two limbs of st.r * LimbBase
BDivStep(st, d) ==
    LET r2 == IF st.r = <<>> THEN <<>> ELSE <<0>> \o st.r
        guess == (Limb(r2, Len(d) + 1) * LimbBase + Limb(r2, Len(d))) \div d[Len(d)]
    IN  BDivLimb(st, d, r2,
                 BQuotientLimb(IF guess < LimbBase THEN guess ELSE LimbBase - 1, r2, d))

\* n steps of long division from st = [q, r]:
\* floor((q * d + r) * LimbBase^n / d) and the remainder that is left; once
\* nothing is left the other limbs of the quotient are 0
RECURSIVE BDivLimbs(_, _, _)
BDivLimbs(st, d, n) ==
    IF n = 0 THEN st
    ELSE IF st.r = <<>> THEN [q |-> BTrim(Zeros(n) \o st.q), r |-> <<>>]
    ELSE BDivLimbs(BDivStep(st, d), d, n - 1)

FZero == [neg |-> FALSE, m |-> <<>>, e |-> 0]

\* q * 2^e with q of MantissaBits bits, or of one bit more after rounding up
FNormal(neg, q, e) ==
    IF BBitLen(q) > MantissaBits
    THEN [neg |-> neg, m |-> BShr(q, 1), e |-> e + 1]
    ELSE [neg |-> neg, m |-> q, e |-> e]

\* q * 2^e, or the next double away from zero
FRoundUp(neg, q, e, up) ==
    IF up THEN FNormal(neg, BAdd(q, <<1>>), e) ELSE [neg |-> neg, m |-> q, e |-> e]

\* n = q * 2^k + rest with k > 0: round to nearest, ties to even, where c
\* compares rest with 2^(k-1)
FRoundHalf(neg, q, e, c) == FRoundUp(neg, q, e, c > 0 \/ (c = 0 /\ BIsOdd(q)))

FRoundOff(neg, n, e, k, q) ==
    FRoundHalf(neg, q, e + k, BCmp(BSub(n, BShl(q, k)), BShl(<<1>>, k - 1)))

\* n * 2^e for n with k bits more than a mantissa
FRoundBits(neg, n, e, k) ==
    IF k <= 0 THEN [neg |-> neg, m |-> BShl(n, -k), e |-> e + k]
    ELSE FRoundOff(neg, n, e, k, BShr(n, k))

\* the double nearest to (-1)^neg * n * 2^e, ties to even
FRound(neg, n, e) ==
    IF n = <<>> THEN FZero ELSE FRoundBits(neg, n, e, BBitLen(n) - MantissaBits)

\* float(i) for an int i
FInt(i) == FRound(i < 0, BFromInt(Abs(i)), 0)

FNeg(x) == IF x = FZero THEN x ELSE [x EXCEPT !.neg = ~x.neg]

\* a * 2^lo and b * 2^lo added with their signs, where c compares a with b
FAddSigned(xneg, a, yneg, b, lo, c) ==
    FRound(IF c >= 0 THEN xneg ELSE yneg,
           IF xneg = yneg THEN BAdd(a, b)
           ELSE IF c >= 0 THEN BSub(a, b) ELSE BSub(b, a),
           lo)

FAddAligned(xneg, a, yneg, b, lo) == FAddSigned(xneg, a, yneg, b, lo, BCmp(a, b))

FAddAt(x, y, lo) ==
    FAddAligned(x.neg, BShl(x.m, x.e - lo), y.neg, BShl(y.m, y.e - lo), lo)

FAdd(x, y) ==
    IF x = FZero THEN y
    ELSE IF y = FZero THEN x
    ELSE FAddAt(x, y, IF x.e < y.e THEN x.e ELSE y.e)

FSub(x, y) == FAdd(x, FNeg(y))

FMul(x, y) ==
    IF x = FZero \/ y = FZero THEN FZero
    ELSE FRound(x.neg # y.neg, BMul(x.m, y.m), x.e + y.e)

\* limbs of quotient that long division adds to the first bit
QuotientLimbs == 4

\* bits to shift a mantissa so that its top limb is at least LimbBase / 2
NormalShift == QuotientLimbs * LimbBits - MantissaBits

\* the quotient st.q and a last bit that is set when the division is inexact
FDivRound(neg, st, e) ==
    IF st.r = <<>> THEN FRound(neg, BShl(st.q, 1), e)
    ELSE FRound(neg, BAdd(BShl(st.q, 1), <<1>>), e)

\* a / d * 2^e for a and d of equally many bits: the quotient, 2^(QuotientLimbs
\* * LimbBits) times too large and cut to an integer
FDivMantissas(neg, a, d, e) ==
    IF BCmp(a, d) >= 0
    THEN FDivRound(neg, BDivLimbs([q |-> <<1>>, r |-> BSub(a, d)], d, QuotientLimbs), e)
    ELSE FDivRound(neg, BDivLimbs([q |-> <<>>, r |-> a], d, QuotientLimbs), e)

\* x / y for y # 0
FDiv(x, y) ==
    IF x = FZero THEN FZero
    ELSE FDivMantissas(x.neg # y.neg, BShl(x.m, NormalShift), BShl(y.m, NormalShift),
                       x.e - y.e - QuotientLimbs * LimbBits - 1)

FNegative(x) == x # FZero /\ x.neg

FLt(x, y) == FNegative(FSub(x, y))
FGt(x, y) == FLt(y, x)
FLe(x, y) == ~FLt(y, x)

\* the double a decimal literal n/d denotes: the double nearest to it
FLit(n, d) == FDiv(FInt(n), FInt(d))

\* -1, 0 or 1 as the double x >= 0 is less than, equal to or greater than the
\* fraction a/b with a >= 0 and b > 0, taken exactly
FCmpFrac(x, a, b) ==
    IF x.e >= 0
    THEN BCmp(BShl(BMul(x.m, BFromInt(b)), x.e), BFromInt(a))
    ELSE BCmp(BMul(x.m, BFromInt(b)), BShl(BFromInt(a), -x.e))

\* the format f"{x:.nf}" of a double x >= 0 shows k / 10^n: the decimal of n
\* places nearest to the exact value of x, the even one of two equally near
FFormats(x, k, n) ==
    (FCmpFrac(x, 2 * k - 1, 2 * (10 ^ n)) > 0 /\ FCmpFrac(x, 2 * k + 1, 2 * (10 ^ n)) < 0)
    \/ (k % 2 = 0 /\ (FCmpFrac(x, 2 * k - 1, 2 * (10 ^ n)) = 0
                      \/ FCmpFrac(x, 2 * k + 1, 2 * (10 ^ n)) = 0))

\* Python's arithmetic expressions as trees: a float literal n/d, an int, a
\* double that was computed before, or a binary operation on two subtrees
FloatLit(n, d) == [node |-> "FloatLit", n |-> n, d |-> d]
IntLit(i) == [node |-> "IntLit", i |-> i]
Name(x) == [node |-> "Name", x |-> x]
BinOp(left, o, right) == [node |-> "BinOp", left |-> left, op |-> o, right |-> right]

BinOpValue(o, x, y) ==
    CASE o = "+" -> FAdd(x, y)
      [] o = "-" -> FSub(x, y)
      [] o = "*" -> FMul(x, y)
      [] o = "/" -> FDiv(x, y)

\* the double an expression evaluates to: the operands first, then the
\* operation on their values, rounded
RECURSIVE Eval(_)
Eval(t) ==
    CASE t.node = "FloatLit" -> FLit(t.n, t.d)
      [] t.node = "IntLit"   -> FInt(t.i)
      [] t.node = "Name"     -> t.x
      [] t.node = "BinOp"    -> BinOpValue(t.op, Eval(t.left), Eval(t.right))

-----------------------------------------------------------------------------
(* Outcomes of a call                                                      *)

Return(v) == [kind |-> "return", value |-> v]
Raise(e) == [kind |-> "raise", error |-> e]

\* dict.get(key, default)
Get(d, k, default) == IF k \in DOMAIN d THEN d[k] ELSE default

-----------------------------------------------------------------------------
(* SabermetricsEngine.__init__                                             *)

InitLeagueConstants ==
    [wOBA_scale          |-> Frac(1255, 1000),
     wOBA_league         |-> Frac(320, 1000),
     R_per_game_league   |-> Frac(465, 100),
     wRC_league          |-> R(100),
     FIP_constant        |-> Frac(310, 100),
     park_factor_neutral |-> One]

InitWobaWeights ==
    [k \in {"uBB", "HBP", "1B", "2B", "3B", "HR"} |->
        CASE k = "uBB" -> Frac(690, 1000)
          [] k = "HBP" -> Frac(722, 1000)
          [] k = "1B"  -> Frac(888, 1000)
          [] k = "2B"  -> Frac(1271, 1000)
          [] k = "3B"  -> Frac(1616, 1000)
          [] k = "HR"  -> Frac(2101, 1000)]

\* default arguments of calculate_war_approximation
PyNone == [type |-> "NoneType"]
PyStr(v) == [type |-> "str", value |-> v]
DefaultPosition == "OF"

\* default arguments of calculate_ops_plus
DefaultLeagueObp == Frac(320, 1000)
DefaultLeagueSlg == Frac(425, 1000)

-----------------------------------------------------------------------------
(* The formulas                                                            *)

BasicStatNames == {"AVG", "OBP", "SLG", "OPS"}

\* calculate_basic_stats that counts every extra-base hit as two bases
calculate_basic_stats_two_bases(s) ==
    LET ab == Get(s, "AB", 0)
        h == Get(s, "H", 0)
        bb == Get(s, "BB", 0)
        sf == Get(s, "SF", 0)
        hbp == Get(s, "HBP", 0)
        pa == ab + bb + sf + hbp
        avg == IF ab > 0 THEN Frac(h, ab) ELSE Zero
        obp == IF pa > 0 THEN Frac(h + bb + hbp, pa) ELSE Zero
        singles == Get(s, "1B", h - Get(s, "2B", 0) - Get(s, "3B", 0) - Get(s, "HR", 0))
        total_bases == singles + (2 * Get(s, "2B", 0)) + (2 * Get(s, "3B", 0))
                         + (2 * Get(s, "HR", 0))
        slg == IF ab > 0 THEN Frac(total_bases, ab) ELSE Zero
    IN  [m \in BasicStatNames |->
            CASE m = "AVG" -> avg
              [] m = "OBP" -> obp
              [] m = "SLG" -> slg
              [] m = "OPS" -> RAdd(obp, slg)]

\* calculate_basic_stats with OBP guarded by ab > 0 instead of pa > 0
calculate_basic_stats_ab_guard(s) ==
    LET ab == Get(s, "AB", 0)
        h == Get(s, "H", 0)
        bb == Get(s, "BB", 0)
        sf == Get(s, "SF", 0)
        hbp == Get(s, "HBP", 0)
        pa == ab + bb + sf + hbp
        avg == IF ab > 0 THEN Frac(h, ab) ELSE Zero
        obp == IF ab > 0 THEN Frac(h + bb + hbp, pa) ELSE Zero
        singles == Get(s, "1B", h - Get(s, "2B", 0) - Get(s, "3B", 0) - Get(s, "HR", 0))
        total_bases == singles + (2 * Get(s, "2B", 0)) + (3 * Get(s, "3B", 0))
                         + (4 * Get(s, "HR", 0))
        slg == IF ab > 0 THEN Frac(total_bases, ab) ELSE Zero
    IN  [m \in {"AVG", "OBP", "SLG", "OPS"} |->
            CASE m = "AVG" -> avg
              [] m = "OBP" -> obp
              [] m = "SLG" -> slg
              [] m = "OPS" -> RAdd(obp, slg)]

calculate_basic_stats(s) ==
    LET ab == Get(s, "AB", 0)
        h == Get(s, "H", 0)
        bb == Get(s, "BB", 0)
        sf == Get(s, "SF", 0)
        hbp == Get(s, "HBP", 0)
        pa == ab + bb + sf + hbp
        avg == IF ab > 0 THEN Frac(h, ab) ELSE Zero
        obp == IF pa > 0 THEN Frac(h + bb + hbp, pa) ELSE Zero
        singles == Get(s, "1B", h - Get(s, "2B", 0) - Get(s, "3B", 0) - Get(s, "HR", 0))
        total_bases == singles + (2 * Get(s, "2B", 0)) + (3 * Get(s, "3B", 0))
                         + (4 * Get(s, "HR", 0))
        slg == IF ab > 0 THEN Frac(total_bases, ab) ELSE Zero
    IN  [m \in BasicStatNames |->
            CASE m = "AVG" -> avg
              [] m = "OBP" -> obp
              [] m = "SLG" -> slg
              [] m = "OPS" -> RAdd(obp, slg)]

calculate_woba(s) ==
    LET bb == Get(s, "BB", 0) - Get(s, "IBB", 0)
        hbp == Get(s, "HBP", 0)
        singles == Get(s, "1B", 0)
        doubles == Get(s, "2B", 0)
        triples == Get(s, "3B", 0)
        hr == Get(s, "HR", 0)
        ab == Get(s, "AB", 0)
        sf == Get(s, "SF", 0)
        numerator ==
            RAdd(RAdd(RAdd(RAdd(RAdd(
                RMul(woba_weights["uBB"], R(bb)),
                RMul(woba_weights["HBP"], R(hbp))),
                RMul(woba_weights["1B"], R(singles))),
                RMul(woba_weights["2B"], R(doubles))),
                RMul(woba_weights["3B"], R(triples))),
                RMul(woba_weights["HR"], R(hr)))
        denominator == ab + bb + sf + hbp
    IN  IF denominator > 0 THEN RDiv(numerator, R(denominator)) ELSE Zero

\* calculate_wrc_plus with the operands of the subtraction exchanged
calculate_wrc_plus_swapped(s, pf) ==
    LET woba == calculate_woba(s)
        scaled == RMul(RAdd(RDiv(RSub(league_constants["wOBA_league"], woba),
                                 league_constants["wOBA_scale"]),
                            league_constants["R_per_game_league"]),
                       R(100))
    IN  IF pf = Zero THEN Raise("ZeroDivisionError") ELSE Return(RDiv(scaled, pf))

\* the division by park_factor raises ZeroDivisionError when park_factor is 0
calculate_wrc_plus(s, pf) ==
    LET woba == calculate_woba(s)
        scaled == RMul(RAdd(RDiv(RSub(woba, league_constants["wOBA_league"]),
                                 league_constants["wOBA_scale"]),
                            league_constants["R_per_game_league"]),
                       R(100))
    IN  IF pf = Zero THEN Raise("ZeroDivisionError") ELSE Return(RDiv(scaled, pf))

\* the constants and weights of __init__ as the doubles their literals denote
Binary64Constant(k) ==
    CASE k = "wOBA_scale"        -> FloatLit(1255, 1000)
      [] k = "wOBA_league"       -> FloatLit(320, 1000)
      [] k = "R_per_game_league" -> FloatLit(465, 100)

Binary64Weight(k) ==
    CASE k = "uBB" -> FloatLit(690, 1000)
      [] k = "HBP" -> FloatLit(722, 1000)
      [] k = "1B"  -> FloatLit(888, 1000)
      [] k = "2B"  -> FloatLit(1271, 1000)
      [] k = "3B"  -> FloatLit(1616, 1000)
      [] k = "HR"  -> FloatLit(2101, 1000)

\* calculate_woba as Python evaluates it: every product, sum and quotient rounded
calculate_woba_binary64(s) ==
    LET bb == Get(s, "BB", 0) - Get(s, "IBB", 0)
        hbp == Get(s, "HBP", 0)
        singles == Get(s, "1B", 0)
        doubles == Get(s, "2B", 0)
        triples == Get(s, "3B", 0)
        hr == Get(s, "HR", 0)
        ab == Get(s, "AB", 0)
        sf == Get(s, "SF", 0)
        numerator ==
            BinOp(BinOp(BinOp(BinOp(BinOp(
                BinOp(Binary64Weight("uBB"), "*", IntLit(bb)), "+",
                BinOp(Binary64Weight("HBP"), "*", IntLit(hbp))), "+",
                BinOp(Binary64Weight("1B"), "*", IntLit(singles))), "+",
                BinOp(Binary64Weight("2B"), "*", IntLit(doubles))), "+",
                BinOp(Binary64Weight("3B"), "*", IntLit(triples))), "+",
                BinOp(Binary64Weight("HR"), "*", IntLit(hr)))
        denominator == ab + bb + sf + hbp
    IN  IF denominator > 0 THEN Eval(BinOp(numerator, "/", IntLit(denominator))) ELSE FZero

\* calculate_wrc_plus on doubles with the operands of the subtraction exchanged
calculate_wrc_plus_binary64_swapped(s, pf) ==
    LET woba == Name(calculate_woba_binary64(s))
        scaled == BinOp(BinOp(BinOp(BinOp(Binary64Constant("wOBA_league"), "-", woba), "/",
                                    Binary64Constant("wOBA_scale")), "+",
                              Binary64Constant("R_per_game_league")), "*",
                        IntLit(100))
    IN  IF pf = FZero THEN Raise("ZeroDivisionError")
        ELSE Return(Eval(BinOp(scaled, "/", Name(pf))))

\* calculate_wrc_plus as Python evaluates it
calculate_wrc_plus_binary64(s, pf) ==
    LET woba == Name(calculate_woba_binary64(s))
        scaled == BinOp(BinOp(BinOp(BinOp(woba, "-", Binary64Constant("wOBA_league")), "/",
                                    Binary64Constant("wOBA_scale")), "+",
                              Binary64Constant("R_per_game_league")), "*",
                        IntLit(100))
    IN  IF pf = FZero THEN Raise("ZeroDivisionError")
        ELSE Return(Eval(BinOp(scaled, "/", Name(pf))))

\* calculate_basic_stats on doubles with the sacrifice flies left out of PA
calculate_basic_stats_binary64_no_sf(s) ==
    LET ab == Get(s, "AB", 0)
        h == Get(s, "H", 0)
        bb == Get(s, "BB", 0)
        hbp == Get(s, "HBP", 0)
        pa == ab + bb + hbp
        avg == IF ab > 0 THEN Eval(BinOp(IntLit(h), "/", IntLit(ab))) ELSE FZero
        obp == IF pa > 0 THEN Eval(BinOp(IntLit(h + bb + hbp), "/", IntLit(pa))) ELSE FZero
        singles == Get(s, "1B", h - Get(s, "2B", 0) - Get(s, "3B", 0) - Get(s, "HR", 0))
        total_bases == singles + (2 * Get(s, "2B", 0)) + (3 * Get(s, "3B", 0))
                         + (4 * Get(s, "HR", 0))
        slg == IF ab > 0 THEN Eval(BinOp(IntLit(total_bases), "/", IntLit(ab))) ELSE FZero
    IN  [AVG |-> avg, OBP |-> obp, SLG |-> slg,
         OPS |-> Eval(BinOp(Name(obp), "+", Name(slg)))]

\* calculate_basic_stats as Python evaluates it: the counts are ints, and every
\* quotient and the sum OBP + SLG are rounded
calculate_basic_stats_binary64(s) ==
    LET ab == Get(s, "AB", 0)
        h == Get(s, "H", 0)
        bb == Get(s, "BB", 0)
        sf == Get(s, "SF", 0)
        hbp == Get(s, "HBP", 0)
        pa == ab + bb + sf + hbp
        avg == IF ab > 0 THEN Eval(BinOp(IntLit(h), "/", IntLit(ab))) ELSE FZero
        obp == IF pa > 0 THEN Eval(BinOp(IntLit(h + bb + hbp), "/", IntLit(pa))) ELSE FZero
        singles == Get(s, "1B", h - Get(s, "2B", 0) - Get(s, "3B", 0) - Get(s, "HR", 0))
        total_bases == singles + (2 * Get(s, "2B", 0)) + (3 * Get(s, "3B", 0))
                         + (4 * Get(s, "HR", 0))
        slg == IF ab > 0 THEN Eval(BinOp(IntLit(total_bases), "/", IntLit(ab))) ELSE FZero
    IN  [AVG |-> avg, OBP |-> obp, SLG |-> slg,
         OPS |-> Eval(BinOp(Name(obp), "+", Name(slg)))]

\* calculate_iso as Python evaluates it
calculate_iso_binary64(s) ==
    LET basic == calculate_basic_stats_binary64(s)
    IN  Eval(BinOp(Name(basic["SLG"]), "-", Name(basic["AVG"])))

\* calculate_babip that divides whenever balls_in_play is not 0
calculate_babip_nonzero_guard(s) ==
    LET h == Get(s, "H", 0)
        hr == Get(s, "HR", 0)
        ab == Get(s, "AB", 0)
        k == Get(s, "K", 0)
        sf == Get(s, "SF", 0)
        balls_in_play == ab - k - hr + sf
        hits_in_play == h - hr
    IN  IF balls_in_play # 0 THEN Frac(hits_in_play, balls_in_play) ELSE Zero

calculate_babip(s) ==
    LET h == Get(s, "H", 0)
        hr == Get(s, "HR", 0)
        ab == Get(s, "AB", 0)
        k == Get(s, "K", 0)
        sf == Get(s, "SF", 0)
        balls_in_play == ab - k - hr + sf
        hits_in_play == h - hr
    IN  IF balls_in_play > 0 THEN Frac(hits_in_play, balls_in_play) ELSE Zero

\* calculate_iso floored at 0
calculate_iso_floored(s) ==
    LET basic == calculate_basic_stats(s)
        iso == RSub(basic["SLG"], basic["AVG"])
    IN  IF RLt(iso, Zero) THEN Zero ELSE iso

calculate_iso(s) ==
    LET basic == calculate_basic_stats(s)
    IN  RSub(basic["SLG"], basic["AVG"])

calculate_ops_plus(s, pf, lobp, lslg) ==
    LET basic == calculate_basic_stats(s)
        obp_ratio == IF RGt(lobp, Zero) THEN RDiv(basic["OBP"], lobp) ELSE One
        slg_ratio == IF RGt(lslg, Zero) THEN RDiv(basic["SLG"], lslg) ELSE One
        scaled == RMul(R(100), RSub(RAdd(obp_ratio, slg_ratio), One))
    IN  IF pf = Zero THEN Raise("ZeroDivisionError") ELSE Return(RDiv(scaled, pf))

MetricNames ==
    BasicStatNames \cup {"wOBA", "wRC+", "BABIP", "ISO", "OPS+", "BB_Rate", "K_Rate"}

\* calculate_comprehensive_player_metrics that leaves the park factor out of wRC+
calculate_comprehensive_player_metrics_neutral_park(s, pf) ==
    LET basic == calculate_basic_stats(s)
        wrc == calculate_wrc_plus(s, One)
        opsp == calculate_ops_plus(s, pf, DefaultLeagueObp, DefaultLeagueSlg)
        abbb == Get(s, "AB", 0) + Get(s, "BB", 0)
    IN  IF opsp.kind = "raise" THEN opsp
        ELSE Return(
            [m \in MetricNames |->
                CASE m \in BasicStatNames -> basic[m]
                  [] m = "wOBA"    -> calculate_woba(s)
                  [] m = "wRC+"    -> wrc.value
                  [] m = "BABIP"   -> calculate_babip(s)
                  [] m = "ISO"     -> calculate_iso(s)
                  [] m = "OPS+"    -> opsp.value
                  [] m = "BB_Rate" -> IF abbb > 0 THEN Frac(Get(s, "BB", 0), abbb) ELSE Zero
                  [] m = "K_Rate"  -> IF abbb > 0 THEN Frac(Get(s, "K", 0), abbb) ELSE Zero])

\* an exception raised by calculate_wrc_plus or calculate_ops_plus propagates
calculate_comprehensive_player_metrics(s, pf) ==
    LET basic == calculate_basic_stats(s)
        wrc == calculate_wrc_plus(s, pf)
        opsp == calculate_ops_plus(s, pf, DefaultLeagueObp, DefaultLeagueSlg)
        abbb == Get(s, "AB", 0) + Get(s, "BB", 0)
    IN  IF wrc.kind = "raise" THEN wrc
        ELSE IF opsp.kind = "raise" THEN opsp
        ELSE Return(
            [m \in MetricNames |->
                CASE m \in BasicStatNames -> basic[m]
                  [] m = "wOBA"    -> calculate_woba(s)
                  [] m = "wRC+"    -> wrc.value
                  [] m = "BABIP"   -> calculate_babip(s)
                  [] m = "ISO"     -> calculate_iso(s)
                  [] m = "OPS+"    -> opsp.value
                  [] m = "BB_Rate" -> IF abbb > 0 THEN Frac(Get(s, "BB", 0), abbb) ELSE Zero
                  [] m = "K_Rate"  -> IF abbb > 0 THEN Frac(Get(s, "K", 0), abbb) ELSE Zero])

DefaultCompareMetrics == <<"AVG", "OBP", "SLG", "OPS", "wOBA", "wRC+", "BABIP", "ISO">>

Range(q) == {q[i] : i \in 1..Len(q)}

\* metrics: List[str] = None
NoneMetrics == [is_none |-> TRUE, names |-> <<>>]
MetricList(q) == [is_none |-> FALSE, names |-> q]

\* compare_players reporting the size of the difference
compare_players_abs(s1, s2, ms) ==
    LET names == IF ms.is_none THEN DefaultCompareMetrics ELSE ms.names
        p1 == calculate_comprehensive_player_metrics(s1, One)
        p2 == calculate_comprehensive_player_metrics(s2, One)
        diff(m) == RSub(p1.value[m], p2.value[m])
    IN  IF p1.kind = "raise" THEN p1
        ELSE IF p2.kind = "raise" THEN p2
        ELSE Return(
            [m \in {x \in Range(names) : x \in DOMAIN p1.value /\ x \in DOMAIN p2.value} |->
                [player1 |-> p1.value[m],
                 player2 |-> p2.value[m],
                 difference |-> IF RLt(diff(m), Zero) THEN RNeg(diff(m)) ELSE diff(m),
                 player1_better |-> RGt(p1.value[m], p2.value[m])]])

\* compare_players with >= for the better-flag
compare_players_ge(s1, s2, ms) ==
    LET names == IF ms.is_none THEN DefaultCompareMetrics ELSE ms.names
        p1 == calculate_comprehensive_player_metrics(s1, One)
        p2 == calculate_comprehensive_player_metrics(s2, One)
    IN  IF p1.kind = "raise" THEN p1
        ELSE IF p2.kind = "raise" THEN p2
        ELSE Return(
            [m \in {x \in Range(names) : x \in DOMAIN p1.value /\ x \in DOMAIN p2.value} |->
                [player1 |-> p1.value[m],
                 player2 |-> p2.value[m],
                 difference |-> RSub(p1.value[m], p2.value[m]),
                 player1_better |-> RLe(p2.value[m], p1.value[m])]])

\* compare_players with an entry for every computed metric, whatever was requested
compare_players_every_metric(s1, s2, ms) ==
    LET p1 == calculate_comprehensive_player_metrics(s1, One)
        p2 == calculate_comprehensive_player_metrics(s2, One)
    IN  IF p1.kind = "raise" THEN p1
        ELSE IF p2.kind = "raise" THEN p2
        ELSE Return(
            [m \in DOMAIN p1.value \cap DOMAIN p2.value |->
                [player1 |-> p1.value[m],
                 player2 |-> p2.value[m],
                 difference |-> RSub(p1.value[m], p2.value[m]),
                 player1_better |-> RGt(p1.value[m], p2.value[m])]])

compare_players(s1, s2, ms) ==
    LET names == IF ms.is_none THEN DefaultCompareMetrics ELSE ms.names
        p1 == calculate_comprehensive_player_metrics(s1, One)
        p2 == calculate_comprehensive_player_metrics(s2, One)
    IN  IF p1.kind = "raise" THEN p1
        ELSE IF p2.kind = "raise" THEN p2
        ELSE Return(
            [m \in {x \in Range(names) : x \in DOMAIN p1.value /\ x \in DOMAIN p2.value} |->
                [player1 |-> p1.value[m],
                 player2 |-> p2.value[m],
                 difference |-> RSub(p1.value[m], p2.value[m]),
                 player1_better |-> RGt(p1.value[m], p2.value[m])]])

position_adjustments ==
    [c \in {"C", "1B", "2B", "3B", "SS", "LF", "CF", "RF", "DH"} |->
        CASE c = "C"  -> Frac(125, 10)
          [] c = "1B" -> Frac(-125, 10)
          [] c = "2B" -> Frac(25, 10)
          [] c = "3B" -> Frac(25, 10)
          [] c = "SS" -> Frac(75, 10)
          [] c = "LF" -> Frac(-75, 10)
          [] c = "CF" -> Frac(25, 10)
          [] c = "RF" -> Frac(-75, 10)
          [] c = "DH" -> Frac(-175, 10)]

\* war_approx of calculate_war_approximation, before the floor; fielding is
\* the fielding_stats argument, which the method does not read
war_approx(s, fielding, pos) ==
    LET wrc_plus == calculate_wrc_plus(s, One).value
        pa == Get(s, "AB", 0) + Get(s, "BB", 0) + Get(s, "SF", 0) + Get(s, "HBP", 0)
        offensive_value ==
            RMul(RMul(RDiv(RSub(wrc_plus, R(100)), R(100)), Frac(pa, 700)), R(20))
        position_adj == RMul(Get(position_adjustments, pos, Zero), Frac(pa, 700))
        replacement_level == RMul(R(2), Frac(pa, 700))
    IN  RAdd(RAdd(offensive_value, position_adj), replacement_level)

\* calculate_war_approximation without the floor at 0
calculate_war_approximation_unfloored(s, fielding, pos) == war_approx(s, fielding, pos)

\* calculate_war_approximation that takes the position from its second argument
calculate_war_approximation_second_is_position(s, fielding, pos) ==
    LET war == war_approx(s, fielding, IF fielding.type = "str" THEN fielding.value ELSE pos)
    IN  IF RGt(war, Zero) THEN war ELSE Zero

calculate_war_approximation(s, fielding, pos) ==
    LET war == war_approx(s, fielding, pos)
    IN  IF RGt(war, Zero) THEN war ELSE Zero

\* stats.get('IP', 0): innings pitched is a float in a pitching record
GetIP(s) == IF "IP" \in DOMAIN s THEN s["IP"] ELSE Zero

\* calculate_pitcher_fip floored at 0
calculate_pitcher_fip_clamped(s) ==
    LET hr == Get(s, "HR", 0)
        bb == Get(s, "BB", 0)
        hbp == Get(s, "HBP", 0)
        k == Get(s, "K", 0)
        ip == GetIP(s)
        fip == RAdd(RDiv(R(13 * hr + 3 * (bb + hbp) - 2 * k), ip),
                    league_constants["FIP_constant"])
    IN  IF RLe(ip, Zero) THEN Zero
        ELSE IF RLt(fip, Zero) THEN Zero ELSE fip

\* calculate_pitcher_fip that answers FIP_constant when no inning was pitched
calculate_pitcher_fip_constant(s) ==
    LET hr == Get(s, "HR", 0)
        bb == Get(s, "BB", 0)
        hbp == Get(s, "HBP", 0)
        k == Get(s, "K", 0)
        ip == GetIP(s)
    IN  IF RLe(ip, Zero) THEN league_constants["FIP_constant"]
        ELSE RAdd(RDiv(R(13 * hr + 3 * (bb + hbp) - 2 * k), ip),
                  league_constants["FIP_constant"])

calculate_pitcher_fip(s) ==
    LET hr == Get(s, "HR", 0)
        bb == Get(s, "BB", 0)
        hbp == Get(s, "HBP", 0)
        k == Get(s, "K", 0)
        ip == GetIP(s)
    IN  IF RLe(ip, Zero) THEN Zero
        ELSE RAdd(RDiv(R(13 * hr + 3 * (bb + hbp) - 2 * k), ip),
                  league_constants["FIP_constant"])

\* calculate_pitcher_whip that counts the walks only
calculate_pitcher_whip_walks_only(s) ==
    LET bb == Get(s, "BB", 0)
        ip == GetIP(s)
    IN  IF RGt(ip, Zero) THEN RDiv(R(bb), ip) ELSE Zero

calculate_pitcher_whip(s) ==
    LET bb == Get(s, "BB", 0)
        h == Get(s, "H", 0)
        ip == GetIP(s)
    IN  IF RGt(ip, Zero) THEN RDiv(R(bb + h), ip) ELSE Zero

PitcherMetricNames ==
    {"ERA", "WHIP", "FIP", "K_per_9", "BB_per_9", "HR_per_9", "K_BB_ratio"}

\* calculate_pitcher_metrics with K_BB_ratio 0 whenever there is no walk
calculate_pitcher_metrics_no_walk_zero(s) ==
    LET ip == GetIP(s)
        er == Get(s, "ER", 0)
        h == Get(s, "H", 0)
        bb == Get(s, "BB", 0)
        k == Get(s, "K", 0)
        per_9(n) == IF RGt(ip, Zero) THEN RDiv(R(n * 9), ip) ELSE Zero
    IN  [m \in PitcherMetricNames |->
            CASE m = "ERA"        -> per_9(er)
              [] m = "WHIP"       -> calculate_pitcher_whip(s)
              [] m = "FIP"        -> calculate_pitcher_fip(s)
              [] m = "K_per_9"    -> per_9(k)
              [] m = "BB_per_9"   -> per_9(bb)
              [] m = "HR_per_9"   -> per_9(Get(s, "HR", 0))
              [] m = "K_BB_ratio" -> IF bb > 0 THEN Frac(k, bb) ELSE Zero]

calculate_pitcher_metrics(s) ==
    LET ip == GetIP(s)
        er == Get(s, "ER", 0)
        h == Get(s, "H", 0)
        bb == Get(s, "BB", 0)
        k == Get(s, "K", 0)
        per_9(n) == IF RGt(ip, Zero) THEN RDiv(R(n * 9), ip) ELSE Zero
    IN  [m \in PitcherMetricNames |->
            CASE m = "ERA"        -> per_9(er)
              [] m = "WHIP"       -> calculate_pitcher_whip(s)
              [] m = "FIP"        -> calculate_pitcher_fip(s)
              [] m = "K_per_9"    -> per_9(k)
              [] m = "BB_per_9"   -> per_9(bb)
              [] m = "HR_per_9"   -> per_9(Get(s, "HR", 0))
              [] m = "K_BB_ratio" -> IF bb > 0 THEN Frac(k, bb)
                                     ELSE IF k > 0 THEN R(k) ELSE Zero]

-----------------------------------------------------------------------------
(* Inputs                                                                  *)

\* largest number of plate appearances tallied into a generated record
MaxPA == 2

BattingKeys == {"AB", "H", "BB", "IBB", "HBP", "SF", "K", "1B", "2B", "3B", "HR"}

\* outcomes of one plate appearance and the counting stats each one adds to
PlateAppearances == {"out", "K", "1B", "2B", "3B", "HR", "BB", "IBB", "HBP", "SF"}

Counted(e) ==
    CASE e = "out" -> {"AB"}
      [] e = "K"   -> {"AB", "K"}
      [] e \in {"1B", "2B", "3B", "HR"} -> {"AB", "H", e}
      [] e = "BB"  -> {"BB"}
      [] e = "IBB" -> {"BB", "IBB"}
      [] e = "HBP" -> {"HBP"}
      [] e = "SF"  -> {"SF"}

Tally(r, e) == [k \in BattingKeys |-> IF k \in Counted(e) THEN r[k] + 1 ELSE r[k]]

ZeroStats == [k \in BattingKeys |-> 0]

RECURSIVE SeasonLines(_)
SeasonLines(n) ==
    IF n = 0 THEN {ZeroStats}
    ELSE LET shorter == SeasonLines(n - 1)
         IN  shorter \cup {Tally(r, e) : r \in shorter, e \in PlateAppearances}

Without(r, ks) == [k \in DOMAIN r \ ks |-> r[k]]

\* a record with no key at all, as process_batting_stats returns after a failed fetch
EmptyStats == [k \in {} |-> 0]

\* 20 plate appearances whose wOBA is exactly the league wOBA (6.400 / 20)
league_average_stats ==
    [k \in BattingKeys |->
        CASE k = "AB" -> 18
          [] k = "H"  -> 3
          [] k \in {"BB", "HBP", "2B", "3B", "HR"} -> 1
          [] OTHER -> 0]

\* the record of demo_sabermetrics
trout_stats ==
    [k \in BattingKeys |->
        CASE k = "AB"  -> 473
          [] k = "H"   -> 134
          [] k = "BB"  -> 89
          [] k = "HBP" -> 3
          [] k = "SF"  -> 4
          [] k = "1B"  -> 82
          [] k = "2B"  -> 21
          [] k = "3B"  -> 1
          [] k = "HR"  -> 30
          [] k = "K"   -> 124
          [] k = "IBB" -> 18]

\* consistent tallies, the same without the '1B' key, and inconsistent records:
\* singles understated, and hits understated with singles left to be derived
BattingRecords ==
    LET lines == SeasonLines(MaxPA)
    IN  lines
        \cup {Without(r, {"1B"}) : r \in lines}
        \cup {[r EXCEPT !["1B"] = 0] : r \in lines}
        \cup {Without([r EXCEPT !["H"] = 0], {"1B"}) : r \in lines}
        \cup {EmptyStats, league_average_stats}

\* second players of a comparison
CompareRecords == SeasonLines(1) \cup {EmptyStats, league_average_stats}

\* longest run of plate appearances with one outcome in a record of Streaks
MaxStreak == 3

RECURSIVE Streak(_, _)
Streak(e, n) == IF n = 0 THEN ZeroStats ELSE Tally(Streak(e, n - 1), e)

\* records of 1..MaxStreak plate appearances that all ended the same way: those
\* with one outcome have the same wOBA as exact numbers
Streaks == {Streak(e, n) : e \in PlateAppearances, n \in 1..MaxStreak}

Binary64Records == Streaks \cup {ZeroStats, EmptyStats, trout_stats}

\* 0, 0.95, 1.0, 1.05
Binary64ParkFactors == {FZero, FLit(95, 100), FInt(1), FLit(105, 100)}

\* what calculate_woba and calculate_wrc_plus return on each record, as doubles
Binary64Woba == [s \in Binary64Records |-> calculate_woba_binary64(s)]

Binary64WrcPlus ==
    [s \in Binary64Records |->
        [pf \in Binary64ParkFactors |-> calculate_wrc_plus_binary64(s, pf)]]

\* largest number of batters faced that is tallied into a generated pitching record
MaxBattersFaced == 3

\* the keys of a pitching record that the engine reads
PitcherKeys == {"IP", "ER", "H", "BB", "K", "HR", "HBP"}

\* what facing one batter adds to a pitching line; a home run is a hit and an earned run
BattersFaced == {"out", "K", "H", "HR", "BB", "HBP"}

PitcherCounted(e) ==
    CASE e = "out" -> {"outs"}
      [] e = "K"   -> {"K", "outs"}
      [] e = "H"   -> {"H"}
      [] e = "HR"  -> {"H", "HR", "ER"}
      [] e = "BB"  -> {"BB"}
      [] e = "HBP" -> {"HBP"}

PitcherTally(r, e) == [k \in DOMAIN r |-> IF k \in PitcherCounted(e) THEN r[k] + 1 ELSE r[k]]

\* the counts, and the outs recorded, after at most n batters
RECURSIVE PitchingLines(_)
PitchingLines(n) ==
    IF n = 0 THEN {[k \in (PitcherKeys \ {"IP"}) \cup {"outs"} |-> 0]}
    ELSE LET shorter == PitchingLines(n - 1)
         IN  shorter \cup {PitcherTally(r, e) : r \in shorter, e \in BattersFaced}

\* float(inningsPitched): full innings, then a decimal digit for the outs of
\* the inning that was not completed
InningsPitched(outs) == Frac((outs \div 3) * 10 + (outs % 3), 10)

PitchingRecord(line) ==
    [k \in PitcherKeys |-> IF k = "IP" THEN InningsPitched(line.outs) ELSE line[k]]

\* the sample pitching records
gerrit_cole_stats ==
    [k \in PitcherKeys |->
        CASE k = "IP"  -> Frac(2222, 10)
          [] k = "ER"  -> 65
          [] k = "H"   -> 180
          [] k = "BB"  -> 45
          [] k = "K"   -> 222
          [] k = "HR"  -> 28
          [] k = "HBP" -> 7]

spencer_strider_stats ==
    [k \in PitcherKeys |->
        CASE k = "IP"  -> Frac(1862, 10)
          [] k = "ER"  -> 80
          [] k = "H"   -> 149
          [] k = "BB"  -> 56
          [] k = "K"   -> 281
          [] k = "HR"  -> 25
          [] k = "HBP" -> 9]

\* tallied records, the same without the 'IP' key or with a negative IP, the
\* record with no key at all, and the samples
PitchingRecords ==
    LET records == {PitchingRecord(line) : line \in PitchingLines(MaxBattersFaced)}
    IN  records
        \cup {Without(r, {"IP"}) : r \in records}
        \cup {[r EXCEPT !["IP"] = RNeg(r["IP"])] : r \in records}
        \cup {EmptyStats, gerrit_cole_stats, spencer_strider_stats}

\* most plate appearances in a record of DegenerateRecords
MaxDegeneratePA == 2

\* records whose denominators can be zero or negative: tallies, the same with
\* the 'AB' key or the 'BB' key missing, and the same with every count negated
DegenerateRecords ==
    LET lines == SeasonLines(MaxDegeneratePA)
    IN  lines
        \cup {Without(r, {"AB"}) : r \in lines}
        \cup {Without(r, {"BB"}) : r \in lines}
        \cup {[k \in BattingKeys |-> 0 - r[k]] : r \in lines}
        \cup {EmptyStats}

\* position codes a caller passes: four of the table, the default and an unknown one
Positions == {"C", "SS", "1B", "DH", "OF", "XX"}

\* records for the calls of every method on one engine: batting and pitching
\* lines of at most one plate appearance, the league-average line, no key at all
EngineRecords ==
    SeasonLines(1)
        \cup {PitchingRecord(line) : line \in PitchingLines(1)}
        \cup {EmptyStats, league_average_stats}

\* records and park factors of the callers that share the engine
SharedRecords == {EmptyStats, Streak("1B", 1), Streak("HR", 1), Streak("BB", 1)}
SharedParkFactors == {Zero, One, Frac(19, 20)}

\* the stat of a split: a hitting line, a pitching line, and the line of a
\* player who has not played, whose rates the API writes "-.--"
hitting_line ==
    [k \in {"atBats", "hits", "homeRuns", "baseOnBalls", "avg"} |->
        CASE k = "atBats" -> 2
          [] k = "avg"    -> ".500"
          [] OTHER        -> 1]

pitching_line ==
    [k \in {"inningsPitched", "strikeOuts", "hits", "era"} |->
        CASE k = "inningsPitched" -> "1.2"
          [] k = "strikeOuts"     -> 2
          [] k = "hits"           -> 3
          [] k = "era"            -> "0.00"]

unplayed_line == [k \in {"avg", "era"} |-> "-.--"]

ApiStats == {hitting_line, pitching_line, unplayed_line}

\* most stat groups in a response, and most splits in all its groups together
MaxGroups == 2
MaxSplits == 2

\* sequences of at most n elements of S
RECURSIVE SeqsUpTo(_, _)
SeqsUpTo(S, n) ==
    IF n = 0 THEN {<<>>}
    ELSE LET shorter == SeqsUpTo(S, n - 1)
         IN  shorter \cup {Append(q, x) : q \in shorter, x \in S}

\* the lists of at most g stat groups that hold at most n splits together
RECURSIVE StatGroupLists(_, _)
StatGroupLists(g, n) ==
    IF g = 0 THEN {<<>>}
    ELSE {<<>>} \cup UNION {{<<[splits |-> q]>> \o rest :
                                rest \in StatGroupLists(g - 1, n - Len(q))} :
                            q \in SeqsUpTo(ApiStats, n)}

\* response.json() of the stats endpoints: no key at all, or 'stats' with groups
StatsResponses ==
    {EmptyStats} \cup {[stats |-> groups] : groups \in StatGroupLists(MaxGroups, MaxSplits)}

\* response.json() of the roster and leaders endpoints
Person(i) == [person |-> [id |-> i, fullName |-> "name"]]
RosterResponses == {EmptyStats, [roster |-> <<>>], [roster |-> <<Person(1), Person(2)>>]}
LeadersResponses ==
    {EmptyStats, [leagueLeaders |-> <<[leaders |-> <<Person(1)>>], [leaders |-> <<Person(2)>>]>>]}

\* the teams of the sample batters
Teams == {"ATL", "LAD", "LAA"}

\* stats of a sample batter: every key is there
slugger_stats ==
    [k \in BattingKeys \cup {"RBI"} |->
        CASE k \in {"AB", "RBI"} -> 2
          [] k \in {"H", "HR"}   -> 1
          [] OTHER               -> 0]

walker_stats ==
    [k \in BattingKeys \cup {"RBI"} |->
        CASE k \in {"AB", "BB", "RBI"} -> 1
          [] OTHER                     -> 0]

\* most batters in the sample data
MaxBatters == 3

\* sample_data['batters'].items(): the name of a batter is a key of the dict, so
\* it is the place of the batter in the order of the items
SampleBatters ==
    SeqsUpTo({[team |-> t, stats |-> st] : t \in Teams, st \in {slugger_stats, walker_stats}},
             MaxBatters)

ParkFactors == {R(-1), Zero, Frac(19, 20), One, Frac(21, 20)}
LeagueObps == {DefaultLeagueObp, Zero, RNeg(DefaultLeagueObp)}
LeagueSlgs == {DefaultLeagueSlg, Zero}
MetricLists ==
    {NoneMetrics, MetricList(<<"wRC+", "OPS+", "K_Rate">>), MetricList(<<"AVG", "WAR">>)}

-----------------------------------------------------------------------------
(* MLBDataCollector: the fetches and the processing of a response          *)

\* exceptions of requests.get, raise_for_status and response.json()
RequestExceptions == {"ConnectionError", "Timeout", "HTTPError"}
FetchExceptions == RequestExceptions \cup {"JSONDecodeError"}

\* the try block of a fetch ended with data, or with exception e
Fetched(data) == [kind |-> "ok", data |-> data]
FetchFailed(e) == [kind |-> "raise", error |-> e]

\* get_player_stats whose handler catches the exceptions of requests only
get_player_stats_requests_only(r) ==
    IF r.kind = "ok" THEN Return(r.data)
    ELSE IF r.error \in RequestExceptions THEN Return(EmptyStats)
    ELSE Raise(r.error)

\* return response.json(), and {} from the handler of `except Exception`
get_player_stats(r) == IF r.kind = "ok" THEN Return(r.data) ELSE Return(EmptyStats)

get_team_stats(r) == IF r.kind = "ok" THEN Return(r.data) ELSE Return(EmptyStats)

\* d.get(k, default)
RosterRow(member) ==
    [player_id |-> Get(Get(member, "person", EmptyStats), "id", "None"),
     player_name |-> Get(Get(member, "person", EmptyStats), "fullName", "None")]

\* pd.DataFrame(roster_data), and pd.DataFrame() from the handler: a DataFrame
\* is the sequence of its rows
get_team_roster(r) ==
    IF r.kind = "ok"
    THEN Return([i \in 1..Len(Get(r.data, "roster", <<>>)) |-> RosterRow(r.data["roster"][i])])
    ELSE Return(<<>>)

LeaderRow(leader) ==
    [player_id |-> Get(Get(leader, "person", EmptyStats), "id", "None"),
     player_name |-> Get(Get(leader, "person", EmptyStats), "fullName", "None")]

RECURSIVE LeaderRows(_)
LeaderRows(categories) ==
    IF categories = <<>> THEN <<>>
    ELSE [i \in 1..Len(Get(Head(categories), "leaders", <<>>)) |->
              LeaderRow(Head(categories)["leaders"][i])]
         \o LeaderRows(Tail(categories))

get_league_leaders(r) ==
    IF r.kind = "ok" THEN Return(LeaderRows(Get(r.data, "leagueLeaders", <<>>)))
    ELSE Return(<<>>)

\* float(v) of the strings of a stat and of the default 0 of stat.get
FloatValues ==
    [v \in {"0", "0.00", ".500", "1.2"} |->
        CASE v = "0"    -> Zero
          [] v = "0.00" -> Zero
          [] v = ".500" -> Frac(1, 2)
          [] v = "1.2"  -> Frac(12, 10)]

\* float(v) raises ValueError for any other string, such as "-.--"
FloatRaises(v) == v \notin DOMAIN FloatValues

\* stat.get(k, 0) where the API gives a string
GetString(stat, k) == IF k \in DOMAIN stat THEN stat[k] ELSE "0"

BattingStatKeys ==
    {"AB", "H", "BB", "IBB", "HBP", "SF", "SH", "K", "2B", "3B", "HR", "RBI", "R", "SB",
     "CS", "AVG", "OBP", "SLG", "OPS", "1B"}

\* the API name of a counting key of batting_stats
BattingApiKey(k) ==
    CASE k = "AB"  -> "atBats"
      [] k = "H"   -> "hits"
      [] k = "BB"  -> "baseOnBalls"
      [] k = "IBB" -> "intentionalWalks"
      [] k = "HBP" -> "hitByPitch"
      [] k = "SF"  -> "sacFlies"
      [] k = "SH"  -> "sacBunts"
      [] k = "K"   -> "strikeOuts"
      [] k = "2B"  -> "doubles"
      [] k = "3B"  -> "triples"
      [] k = "HR"  -> "homeRuns"
      [] k = "RBI" -> "rbi"
      [] k = "R"   -> "runs"
      [] k = "SB"  -> "stolenBases"
      [] k = "CS"  -> "caughtStealing"
      [] k = "AVG" -> "avg"
      [] k = "OBP" -> "obp"
      [] k = "SLG" -> "slg"
      [] k = "OPS" -> "ops"

\* the dict literal of process_batting_stats raises inside float(...)
BattingStatsRaise(stat) ==
    \E k \in {"avg", "obp", "slg", "ops"} : FloatRaises(GetString(stat, k))

\* batting_stats = {...}; batting_stats['1B'] = H - 2B - 3B - HR
BattingStatsOf(stat) ==
    [k \in BattingStatKeys |->
        CASE k \in {"AVG", "OBP", "SLG", "OPS"} -> FloatValues[GetString(stat, BattingApiKey(k))]
          [] k = "1B" -> Get(stat, "hits", 0) - Get(stat, "doubles", 0)
                           - Get(stat, "triples", 0) - Get(stat, "homeRuns", 0)
          [] OTHER -> Get(stat, BattingApiKey(k), 0)]

PitchingStatKeys ==
    {"W", "L", "ERA", "G", "GS", "CG", "SHO", "SV", "IP", "H", "ER", "HR", "BB", "IBB",
     "K", "HBP", "WHIP", "BABIP"}

PitchingApiKey(k) ==
    CASE k = "W"     -> "wins"
      [] k = "L"     -> "losses"
      [] k = "ERA"   -> "era"
      [] k = "G"     -> "gamesPlayed"
      [] k = "GS"    -> "gamesStarted"
      [] k = "CG"    -> "completeGames"
      [] k = "SHO"   -> "shutouts"
      [] k = "SV"    -> "saves"
      [] k = "IP"    -> "inningsPitched"
      [] k = "H"     -> "hits"
      [] k = "ER"    -> "earnedRuns"
      [] k = "HR"    -> "homeRuns"
      [] k = "BB"    -> "baseOnBalls"
      [] k = "IBB"   -> "intentionalWalks"
      [] k = "K"     -> "strikeOuts"
      [] k = "HBP"   -> "hitBatsmen"
      [] k = "WHIP"  -> "whip"
      [] k = "BABIP" -> "babip"

PitchingStatsRaise(stat) ==
    \E k \in {"era", "inningsPitched", "whip", "babip"} : FloatRaises(GetString(stat, k))

PitchingStatsOf(stat) ==
    [k \in PitchingStatKeys |->
        CASE k \in {"ERA", "IP", "WHIP", "BABIP"}
                -> FloatValues[GetString(stat, PitchingApiKey(k))]
          [] OTHER -> Get(stat, PitchingApiKey(k), 0)]

\* the record one split gives to the processing method name, or the exception
StatsRaise(name, stat) ==
    IF name = "process_batting_stats" THEN BattingStatsRaise(stat) ELSE PitchingStatsRaise(stat)

StatsOf(name, stat) ==
    IF name = "process_batting_stats" THEN BattingStatsOf(stat) ELSE PitchingStatsOf(stat)

\* stats_data.get('stats', [])
StatGroups(data) == Get(data, "stats", <<>>)

\* stat_group.get('splits', []); a split is given by its 'stat'
Splits(group) == Get(group, "splits", <<>>)

\* what the try block of a fetch can end with
FetchOutcomes(responses) ==
    {Fetched(d) : d \in responses} \cup {FetchFailed(e) : e \in FetchExceptions}

-----------------------------------------------------------------------------
(* The callers that share one engine (get_analytics_engine)               *)

\* callers of the cached engine
NumCallers == 2
Callers == 1..NumCallers

\* a caller with no call in progress
IdleCaller ==
    [pc |-> "idle", op |-> "idle", stats |-> EmptyStats, park_factor |-> One,
     woba |-> Zero, basic |-> EmptyStats, result |-> Return(Zero)]

\* no request made, or its outcome dropped
NoResponse == [kind |-> "none"]

\* no caller in a call, and nothing fetched or being processed
InitCallersAndCollector ==
    /\ callers = [c \in Callers |-> IdleCaller]
    /\ response = NoResponse
    /\ stats_data = EmptyStats
    /\ stat_group = 0
    /\ batting_stats = EmptyStats

InitOthers ==
    /\ InitCallersAndCollector
    /\ sample_data = <<>>
    /\ player = 0
    /\ team_stats = EmptyStats

-----------------------------------------------------------------------------
(* The engine and the calls made on it                                     *)
(*                                                                         *)
(* A behaviour starts with a constructed engine and a caller holding some  *)
(* batting record.  The caller makes one call at a time on that record and *)
(* takes the outcome before it makes the next call.                        *)

Init ==
    /\ league_constants = InitLeagueConstants
    /\ woba_weights = InitWobaWeights
    /\ op = "idle"
    /\ stats \in BattingRecords
    /\ stats2 = EmptyStats
    /\ park_factor = One
    /\ league_obp = DefaultLeagueObp
    /\ league_slg = DefaultLeagueSlg
    /\ metrics = NoneMetrics
    /\ fielding_stats = PyNone
    /\ position = DefaultPosition
    /\ InitOthers
    /\ result = Return(Zero)

\* a call after which the engine remembers the park factor it was given
Call_remembering_park_factor(name, s2, pf, lobp, lslg, ms, outcome) ==
    /\ op = "idle"
    /\ op' = name
    /\ stats2' = s2
    /\ park_factor' = pf
    /\ league_obp' = lobp
    /\ league_slg' = lslg
    /\ metrics' = ms
    /\ result' = outcome
    /\ league_constants' = [league_constants EXCEPT !["park_factor_neutral"] = pf]
    /\ UNCHANGED <<woba_weights, stats, fielding_stats, position>>
    /\ UNCHANGED others

\* a call of method name on the caller's record with the given other arguments
Call(name, s2, pf, lobp, lslg, ms, outcome) ==
    /\ op = "idle"
    /\ op' = name
    /\ stats2' = s2
    /\ park_factor' = pf
    /\ league_obp' = lobp
    /\ league_slg' = lslg
    /\ metrics' = ms
    /\ result' = outcome
    /\ UNCHANGED <<league_constants, woba_weights, stats, fielding_stats, position>>
    /\ UNCHANGED others

Call1(name, outcome) ==
    Call(name, EmptyStats, One, DefaultLeagueObp, DefaultLeagueSlg, NoneMetrics, outcome)

BasicStats == Call1("calculate_basic_stats", Return(calculate_basic_stats(stats)))

Woba == Call1("calculate_woba", Return(calculate_woba(stats)))

WrcPlus ==
    \E pf \in ParkFactors :
        Call("calculate_wrc_plus", EmptyStats, pf, DefaultLeagueObp, DefaultLeagueSlg,
             NoneMetrics, calculate_wrc_plus(stats, pf))

Babip == Call1("calculate_babip", Return(calculate_babip(stats)))

Iso == Call1("calculate_iso", Return(calculate_iso(stats)))

OpsPlus ==
    \E pf \in ParkFactors, lobp \in LeagueObps, lslg \in LeagueSlgs :
        Call("calculate_ops_plus", EmptyStats, pf, lobp, lslg, NoneMetrics,
             calculate_ops_plus(stats, pf, lobp, lslg))

Comprehensive ==
    \E pf \in ParkFactors :
        Call("calculate_comprehensive_player_metrics", EmptyStats, pf,
             DefaultLeagueObp, DefaultLeagueSlg, NoneMetrics,
             calculate_comprehensive_player_metrics(stats, pf))

ComparePlayers ==
    \E s2 \in CompareRecords, ms \in MetricLists :
        Call("compare_players", s2, One, DefaultLeagueObp, DefaultLeagueSlg, ms,
             compare_players(stats, s2, ms))

\* calculate_war_approximation(stats, position=pos)
WarKeyword ==
    \E pos \in Positions :
        /\ op = "idle"
        /\ op' = "calculate_war_approximation"
        /\ position' = pos
        /\ result' = Return(calculate_war_approximation(stats, fielding_stats, pos))
        /\ UNCHANGED <<league_constants, woba_weights, stats, stats2, park_factor,
                       league_obp, league_slg, metrics, fielding_stats>>
        /\ UNCHANGED others

\* calculate_war_approximation(stats, pos): the second positional parameter is
\* fielding_stats
WarPositional ==
    \E pos \in Positions :
        /\ op = "idle"
        /\ op' = "calculate_war_approximation"
        /\ fielding_stats' = PyStr(pos)
        /\ result' = Return(calculate_war_approximation(stats, PyStr(pos), position))
        /\ UNCHANGED <<league_constants, woba_weights, stats, stats2, park_factor,
                       league_obp, league_slg, metrics, position>>
        /\ UNCHANGED others

\* the caller takes the outcome; the engine keeps nothing of the call
TakeResult ==
    /\ op # "idle"
    /\ result.kind \in {"return", "raise"}
    /\ op' = "idle"
    /\ stats2' = EmptyStats
    /\ park_factor' = One
    /\ league_obp' = DefaultLeagueObp
    /\ league_slg' = DefaultLeagueSlg
    /\ metrics' = NoneMetrics
    /\ fielding_stats' = PyNone
    /\ position' = DefaultPosition
    /\ result' = Return(Zero)
    /\ UNCHANGED <<league_constants, woba_weights, stats>>
    /\ UNCHANGED others

Next ==
    \/ BasicStats
    \/ Woba
    \/ WrcPlus
    \/ Babip
    \/ Iso
    \/ OpsPlus
    \/ Comprehensive
    \/ ComparePlayers
    \/ WarKeyword
    \/ WarPositional
    \/ TakeResult

Spec == Init /\ [][Next]_vars

-----------------------------------------------------------------------------
(* The same engine with the doubles Python computes: calls of              *)
(* calculate_woba and calculate_wrc_plus whose outcome is the rounded      *)
(* result.                                                                 *)

InitBinary64 ==
    /\ league_constants = InitLeagueConstants
    /\ woba_weights = InitWobaWeights
    /\ op = "idle"
    /\ stats \in Binary64Records
    /\ stats2 = EmptyStats
    /\ park_factor = One
    /\ league_obp = DefaultLeagueObp
    /\ league_slg = DefaultLeagueSlg
    /\ metrics = NoneMetrics
    /\ fielding_stats = PyNone
    /\ position = DefaultPosition
    /\ InitOthers
    /\ result = Return(Zero)

WobaBinary64 == Call1("calculate_woba", Return(calculate_woba_binary64(stats)))

WrcPlusBinary64 ==
    \E pf \in Binary64ParkFactors :
        Call("calculate_wrc_plus", EmptyStats, pf, DefaultLeagueObp, DefaultLeagueSlg,
             NoneMetrics, calculate_wrc_plus_binary64(stats, pf))

BasicStatsBinary64 ==
    Call1("calculate_basic_stats", Return(calculate_basic_stats_binary64(stats)))

IsoBinary64 == Call1("calculate_iso", Return(calculate_iso_binary64(stats)))

NextBinary64 ==
    \/ WobaBinary64
    \/ WrcPlusBinary64
    \/ BasicStatsBinary64
    \/ IsoBinary64
    \/ TakeResult

SpecBinary64 == InitBinary64 /\ [][NextBinary64]_vars

-----------------------------------------------------------------------------
(* The calls made on a pitching record                                     *)

InitPitcher ==
    /\ league_constants = InitLeagueConstants
    /\ woba_weights = InitWobaWeights
    /\ op = "idle"
    /\ stats \in PitchingRecords
    /\ stats2 = EmptyStats
    /\ park_factor = One
    /\ league_obp = DefaultLeagueObp
    /\ league_slg = DefaultLeagueSlg
    /\ metrics = NoneMetrics
    /\ fielding_stats = PyNone
    /\ position = DefaultPosition
    /\ InitOthers
    /\ result = Return(Zero)

PitcherFip == Call1("calculate_pitcher_fip", Return(calculate_pitcher_fip(stats)))

PitcherWhip == Call1("calculate_pitcher_whip", Return(calculate_pitcher_whip(stats)))

PitcherMetrics == Call1("calculate_pitcher_metrics", Return(calculate_pitcher_metrics(stats)))

NextPitcher ==
    \/ PitcherFip
    \/ PitcherWhip
    \/ PitcherMetrics
    \/ TakeResult

SpecPitcher == InitPitcher /\ [][NextPitcher]_vars

-----------------------------------------------------------------------------
(* The ratio calls made on records with keys missing or counts negated     *)

InitDegenerate ==
    /\ league_constants = InitLeagueConstants
    /\ woba_weights = InitWobaWeights
    /\ op = "idle"
    /\ stats \in DegenerateRecords
    /\ stats2 = EmptyStats
    /\ park_factor = One
    /\ league_obp = DefaultLeagueObp
    /\ league_slg = DefaultLeagueSlg
    /\ metrics = NoneMetrics
    /\ fielding_stats = PyNone
    /\ position = DefaultPosition
    /\ InitOthers
    /\ result = Return(Zero)

NextDegenerate ==
    \/ BasicStats
    \/ Woba
    \/ Babip
    \/ Comprehensive
    \/ WarKeyword
    \/ WarPositional
    \/ TakeResult

SpecDegenerate == InitDegenerate /\ [][NextDegenerate]_vars

-----------------------------------------------------------------------------
(* Every method called on one engine, in any order                         *)

InitEngine ==
    /\ league_constants = InitLeagueConstants
    /\ woba_weights = InitWobaWeights
    /\ op = "idle"
    /\ stats \in EngineRecords
    /\ stats2 = EmptyStats
    /\ park_factor = One
    /\ league_obp = DefaultLeagueObp
    /\ league_slg = DefaultLeagueSlg
    /\ metrics = NoneMetrics
    /\ fielding_stats = PyNone
    /\ position = DefaultPosition
    /\ InitOthers
    /\ result = Return(Zero)

NextEngine ==
    \/ BasicStats
    \/ Woba
    \/ WrcPlus
    \/ Babip
    \/ Iso
    \/ OpsPlus
    \/ Comprehensive
    \/ ComparePlayers
    \/ WarKeyword
    \/ WarPositional
    \/ PitcherFip
    \/ PitcherWhip
    \/ PitcherMetrics
    \/ TakeResult

SpecEngine == InitEngine /\ [][NextEngine]_vars

-----------------------------------------------------------------------------
(* Calls of several callers on the one engine, interleaved statement by    *)
(* statement: each call has its own arguments and local variables          *)

single == <<op, stats, stats2, park_factor, league_obp, league_slg, metrics,
            fielding_stats, position, result>>

\* caller c enters method name with record s and park factor pf
Enter(c, name, s, pf) ==
    /\ callers[c].pc = "idle"
    /\ callers' = [callers EXCEPT ![c] =
                      [IdleCaller EXCEPT !.pc = name, !.op = name, !.stats = s,
                                         !.park_factor = pf]]
    /\ UNCHANGED <<league_constants, woba_weights, single, collector, aggregation>>

EnterWrcPlus(c) ==
    \E s \in SharedRecords, pf \in SharedParkFactors : Enter(c, "calculate_wrc_plus", s, pf)

EnterIso(c) == \E s \in SharedRecords : Enter(c, "calculate_iso", s, One)

\* woba = self.calculate_woba(stats), kept in an attribute of the engine
\* instead of a local variable: every call in progress sees the last one
WrcPlusWoba_on_engine(c) ==
    /\ callers[c].pc = "calculate_wrc_plus"
    /\ callers' = [d \in Callers |->
                      IF d = c
                      THEN [callers[d] EXCEPT !.woba = calculate_woba(callers[c].stats),
                                              !.pc = "wrc_plus"]
                      ELSE [callers[d] EXCEPT !.woba = calculate_woba(callers[c].stats)]]
    /\ UNCHANGED <<league_constants, woba_weights, single, collector, aggregation>>

\* woba = self.calculate_woba(stats)
WrcPlusWoba(c) ==
    /\ callers[c].pc = "calculate_wrc_plus"
    /\ callers' = [callers EXCEPT ![c].woba = calculate_woba(callers[c].stats),
                                  ![c].pc = "wrc_plus"]
    /\ UNCHANGED <<league_constants, woba_weights, single, collector, aggregation>>

\* wrc_plus = (...) * 100 / park_factor; return wrc_plus
WrcPlusReturn(c) ==
    /\ callers[c].pc = "wrc_plus"
    /\ callers' = [callers EXCEPT
          ![c].result =
              IF callers[c].park_factor = Zero THEN Raise("ZeroDivisionError")
              ELSE Return(RDiv(RMul(RAdd(RDiv(RSub(callers[c].woba,
                                                   league_constants["wOBA_league"]),
                                              league_constants["wOBA_scale"]),
                                         league_constants["R_per_game_league"]),
                                    R(100)),
                               callers[c].park_factor)),
          ![c].pc = "done"]
    /\ UNCHANGED <<league_constants, woba_weights, single, collector, aggregation>>

\* basic = self.calculate_basic_stats(stats)
IsoBasic(c) ==
    /\ callers[c].pc = "calculate_iso"
    /\ callers' = [callers EXCEPT ![c].basic = calculate_basic_stats(callers[c].stats),
                                  ![c].pc = "iso"]
    /\ UNCHANGED <<league_constants, woba_weights, single, collector, aggregation>>

\* return basic['SLG'] - basic['AVG']
IsoReturn(c) ==
    /\ callers[c].pc = "iso"
    /\ callers' = [callers EXCEPT
          ![c].result = Return(RSub(callers[c].basic["SLG"], callers[c].basic["AVG"])),
          ![c].pc = "done"]
    /\ UNCHANGED <<league_constants, woba_weights, single, collector, aggregation>>

\* the caller takes the result
Leave(c) ==
    /\ callers[c].pc = "done"
    /\ callers' = [callers EXCEPT ![c] = IdleCaller]
    /\ UNCHANGED <<league_constants, woba_weights, single, collector, aggregation>>

NextShared ==
    \E c \in Callers :
        \/ EnterWrcPlus(c)
        \/ EnterIso(c)
        \/ WrcPlusWoba(c)
        \/ WrcPlusReturn(c)
        \/ IsoBasic(c)
        \/ IsoReturn(c)
        \/ Leave(c)

InitShared ==
    /\ league_constants = InitLeagueConstants
    /\ woba_weights = InitWobaWeights
    /\ op = "idle"
    /\ stats = EmptyStats
    /\ stats2 = EmptyStats
    /\ park_factor = One
    /\ league_obp = DefaultLeagueObp
    /\ league_slg = DefaultLeagueSlg
    /\ metrics = NoneMetrics
    /\ fielding_stats = PyNone
    /\ position = DefaultPosition
    /\ InitOthers
    /\ result = Return(Zero)

SpecShared == InitShared /\ [][NextShared]_vars

-----------------------------------------------------------------------------
(* The collector: a fetch, the processing of its response group by group,  *)
(* and the engine called on the record that comes out                      *)

\* a fetch method is called; its try block ends as r
Fetch(name, r, outcome) ==
    /\ op = "idle"
    /\ op' = name
    /\ response' = r
    /\ result' = outcome
    /\ UNCHANGED <<league_constants, woba_weights, stats, stats2, park_factor, league_obp,
                   league_slg, metrics, fielding_stats, position, callers, aggregation,
                   stats_data, stat_group, batting_stats>>

GetPlayerStats ==
    \E r \in FetchOutcomes(StatsResponses) : Fetch("get_player_stats", r, get_player_stats(r))

GetTeamStats ==
    \E r \in FetchOutcomes(StatsResponses) : Fetch("get_team_stats", r, get_team_stats(r))

GetTeamRoster ==
    \E r \in FetchOutcomes(RosterResponses) : Fetch("get_team_roster", r, get_team_roster(r))

GetLeagueLeaders ==
    \E r \in FetchOutcomes(LeadersResponses) :
        Fetch("get_league_leaders", r, get_league_leaders(r))

\* process_batting_stats(stats_data) or process_pitching_stats(stats_data) is
\* entered with what a stats fetch returned: batting_stats = {}
ProcessStats ==
    \E name \in {"process_batting_stats", "process_pitching_stats"} :
        /\ op \in {"get_player_stats", "get_team_stats"}
        /\ result.kind = "return"
        /\ op' = name
        /\ stats_data' = result.value
        /\ batting_stats' = EmptyStats
        /\ stat_group' = 1
        /\ result' = [kind |-> "running"]
        /\ UNCHANGED <<league_constants, woba_weights, stats, stats2, park_factor,
                       league_obp, league_slg, metrics, fielding_stats, position, callers, aggregation,
                       response>>

\* the loops with a break that leaves both of them: the first record that is
\* built is the one returned
FirstSplit_every_group_breaks(group) ==
    IF Splits(group) = <<>>
    THEN [batting_stats |-> batting_stats, stat_group |-> stat_group + 1]
    ELSE IF StatsRaise(op, Head(Splits(group)))
    THEN [batting_stats |-> batting_stats, stat_group |-> Len(StatGroups(stats_data)) + 1]
    ELSE IF batting_stats # EmptyStats
    THEN [batting_stats |-> batting_stats, stat_group |-> Len(StatGroups(stats_data)) + 1]
    ELSE [batting_stats |-> StatsOf(op, Head(Splits(group))),
          stat_group |-> Len(StatGroups(stats_data)) + 1]

\* one pass of `for stat_group in ...`: the inner loop ends at the break of its
\* first iteration, and the outer loop goes on; an exception of float(...) is
\* caught outside both loops
FirstSplit(group) ==
    IF Splits(group) = <<>>
    THEN [batting_stats |-> batting_stats, stat_group |-> stat_group + 1]
    ELSE IF StatsRaise(op, Head(Splits(group)))
    THEN [batting_stats |-> batting_stats, stat_group |-> Len(StatGroups(stats_data)) + 1]
    ELSE [batting_stats |-> StatsOf(op, Head(Splits(group))), stat_group |-> stat_group + 1]

ProcessGroup ==
    /\ op \in {"process_batting_stats", "process_pitching_stats"}
    /\ stat_group \in 1..Len(StatGroups(stats_data))
    /\ batting_stats' = FirstSplit(StatGroups(stats_data)[stat_group]).batting_stats
    /\ stat_group' = FirstSplit(StatGroups(stats_data)[stat_group]).stat_group
    /\ UNCHANGED <<league_constants, woba_weights, op, stats, stats2, park_factor,
                   league_obp, league_slg, metrics, fielding_stats, position, result,
                   callers, aggregation, response, stats_data>>

\* return batting_stats
ProcessReturn ==
    /\ op \in {"process_batting_stats", "process_pitching_stats"}
    /\ stat_group > Len(StatGroups(stats_data))
    /\ result' = Return(batting_stats)
    /\ stat_group' = 0
    /\ UNCHANGED <<league_constants, woba_weights, op, stats, stats2, park_factor,
                   league_obp, league_slg, metrics, fielding_stats, position,
                   callers, aggregation, response, stats_data, batting_stats>>

\* the caller keeps the processed record, to call the engine on it
KeepRecord ==
    /\ op \in {"process_batting_stats", "process_pitching_stats"}
    /\ result.kind = "return"
    /\ op' = "idle"
    /\ stats' = result.value
    /\ stats_data' = EmptyStats
    /\ batting_stats' = EmptyStats
    /\ result' = Return(Zero)
    /\ UNCHANGED <<league_constants, woba_weights, stats2, park_factor, league_obp,
                   league_slg, metrics, fielding_stats, position, callers, aggregation, response,
                   stat_group>>

FetchMethods == {"get_player_stats", "get_team_stats", "get_team_roster", "get_league_leaders"}

\* the caller takes what a fetch returned, or the exception it raised
TakeFetched ==
    /\ op \in FetchMethods
    /\ result.kind \in {"return", "raise"}
    /\ op' = "idle"
    /\ result' = Return(Zero)
    /\ response' = NoResponse
    /\ UNCHANGED <<league_constants, woba_weights, stats, stats2, park_factor, league_obp,
                   league_slg, metrics, fielding_stats, position, callers, aggregation,
                   stats_data, stat_group, batting_stats>>

\* the caller takes what a method of the engine returned or raised
TakeEngineResult ==
    /\ op \notin FetchMethods \cup {"process_batting_stats", "process_pitching_stats"}
    /\ TakeResult

InitCollector ==
    /\ league_constants = InitLeagueConstants
    /\ woba_weights = InitWobaWeights
    /\ op = "idle"
    /\ stats = EmptyStats
    /\ stats2 = EmptyStats
    /\ park_factor = One
    /\ league_obp = DefaultLeagueObp
    /\ league_slg = DefaultLeagueSlg
    /\ metrics = NoneMetrics
    /\ fielding_stats = PyNone
    /\ position = DefaultPosition
    /\ InitOthers
    /\ result = Return(Zero)

NextCollector ==
    \/ GetPlayerStats
    \/ GetTeamStats
    \/ GetTeamRoster
    \/ GetLeagueLeaders
    \/ ProcessStats
    \/ ProcessGroup
    \/ ProcessReturn
    \/ KeepRecord
    \/ TakeFetched
    \/ BasicStats
    \/ Woba
    \/ WrcPlus
    \/ Babip
    \/ Iso
    \/ OpsPlus
    \/ Comprehensive
    \/ ComparePlayers
    \/ WarKeyword
    \/ WarPositional
    \/ PitcherFip
    \/ PitcherWhip
    \/ PitcherMetrics
    \/ TakeEngineResult

SpecCollector == InitCollector /\ [][NextCollector]_vars

-----------------------------------------------------------------------------
(* demo_team_analysis: the batters aggregated by team                      *)

\* {'name': player, 'wRC+': metrics['wRC+'], 'OPS': metrics['OPS']}
TeamPlayer(name, ms) ==
    [k \in {"name", "wRC+", "OPS"} |-> IF k = "name" THEN name ELSE ms[k]]

\* the body of the loop that starts a new entry for every batter
TeamStatsWith_entry_started_anew(ts, name, info, ms) ==
    [t \in DOMAIN ts \cup {info.team} |->
        IF t = info.team
        THEN [players   |-> <<TeamPlayer(name, ms)>>,
              total_hr  |-> info.stats["HR"],
              total_rbi |-> info.stats["RBI"]]
        ELSE ts[t]]

\* the body of the loop over the batters: the entry of the team is started if
\* the team is not in team_stats, the player is appended and the totals grow
TeamStatsWith(ts, name, info, ms) ==
    LET entry == IF info.team \in DOMAIN ts THEN ts[info.team]
                 ELSE [players |-> <<>>, total_hr |-> 0, total_rbi |-> 0]
    IN  [t \in DOMAIN ts \cup {info.team} |->
            IF t = info.team
            THEN [players   |-> Append(entry.players, TeamPlayer(name, ms)),
                  total_hr  |-> entry.total_hr + info.stats["HR"],
                  total_rbi |-> entry.total_rbi + info.stats["RBI"]]
            ELSE ts[t]]

\* sum(p[k] for p in players)
RECURSIVE SumOver(_, _)
SumOver(players, k) ==
    IF players = <<>> THEN Zero ELSE RAdd(Head(players)[k], SumOver(Tail(players), k))

\* the row printed for a team
TeamRow(data) ==
    [players   |-> Len(data.players),
     avg_wrc   |-> RDiv(SumOver(data.players, "wRC+"), R(Len(data.players))),
     avg_ops   |-> RDiv(SumOver(data.players, "OPS"), R(Len(data.players))),
     total_hr  |-> data.total_hr,
     total_rbi |-> data.total_rbi]

\* demo_team_analysis is entered: team_stats = {}
TeamAnalysis ==
    /\ op = "idle"
    /\ op' = "demo_team_analysis"
    /\ team_stats' = EmptyStats
    /\ player' = 1
    /\ result' = [kind |-> "running"]
    /\ UNCHANGED <<league_constants, woba_weights, stats, stats2, park_factor, league_obp,
                   league_slg, metrics, fielding_stats, position, callers, collector,
                   sample_data>>

\* one pass of the loop over the batters; an exception of the engine leaves
\* the method
TeamBatter ==
    /\ op = "demo_team_analysis"
    /\ player \in 1..Len(sample_data)
    /\ LET info == sample_data[player]
           called == calculate_comprehensive_player_metrics(info.stats, One)
       IN  IF called.kind = "raise"
           THEN /\ result' = called
                /\ player' = 0
                /\ UNCHANGED team_stats
           ELSE /\ team_stats' = TeamStatsWith(team_stats, player, info, called.value)
                /\ player' = player + 1
                /\ UNCHANGED result
    /\ UNCHANGED <<league_constants, woba_weights, op, stats, stats2, park_factor,
                   league_obp, league_slg, metrics, fielding_stats, position, callers,
                   collector, sample_data>>

\* the loop over team_stats.items(): the averages divide by len(data['players'])
TeamAverages ==
    /\ op = "demo_team_analysis"
    /\ player > Len(sample_data)
    /\ result' = IF \E t \in DOMAIN team_stats : Len(team_stats[t].players) = 0
                 THEN Raise("ZeroDivisionError")
                 ELSE Return([t \in DOMAIN team_stats |-> TeamRow(team_stats[t])])
    /\ player' = 0
    /\ UNCHANGED <<league_constants, woba_weights, op, stats, stats2, park_factor,
                   league_obp, league_slg, metrics, fielding_stats, position, callers,
                   collector, sample_data, team_stats>>

InitTeams ==
    /\ league_constants = InitLeagueConstants
    /\ woba_weights = InitWobaWeights
    /\ op = "idle"
    /\ stats = EmptyStats
    /\ stats2 = EmptyStats
    /\ park_factor = One
    /\ league_obp = DefaultLeagueObp
    /\ league_slg = DefaultLeagueSlg
    /\ metrics = NoneMetrics
    /\ fielding_stats = PyNone
    /\ position = DefaultPosition
    /\ InitCallersAndCollector
    /\ sample_data \in SampleBatters
    /\ player = 0
    /\ team_stats = EmptyStats
    /\ result = Return(Zero)

NextTeams ==
    \/ TeamAnalysis
    \/ TeamBatter
    \/ TeamAverages
    \/ TakeResult

SpecTeams == InitTeams /\ [][NextTeams]_vars

-----------------------------------------------------------------------------
(* Properties                                                              *)

AllZero(s) == \A k \in DOMAIN s : s[k] = 0

\* non-negative counts and H >= 2B + 3B + HR
WellFormed(s) ==
    /\ \A k \in DOMAIN s : s[k] >= 0
    /\ Get(s, "H", 0) >= Get(s, "2B", 0) + Get(s, "3B", 0) + Get(s, "HR", 0)

Returned(name) == op = name /\ result.kind = "return"

\* C1: for an all-zero batting record (every stat 0, or no key at all) and the
\* default park factor, calculate_comprehensive_player_metrics raises nothing
\* and every metric of the returned set is 0.
C1_AllZeroRecordAllMetricsZero ==
    (op = "calculate_comprehensive_player_metrics" /\ park_factor = One /\ AllZero(stats))
        => /\ result.kind = "return"
           /\ \A m \in MetricNames : result.value[m] = Zero

\* C2: calculate_wrc_plus with park_factor = 0 ends in a MisconfigurationError,
\* not in a divide-by-zero failure and not in a number.
C2_ZeroParkFactorMisconfiguration ==
    (op = "calculate_wrc_plus" /\ park_factor = Zero)
        => /\ result.kind = "raise"
           /\ result.error = "MisconfigurationError"

\* C3: with a negative park_factor, calculate_wrc_plus and calculate_ops_plus,
\* called directly or through calculate_comprehensive_player_metrics, end in
\* an error and never return a number or a metric set.
C3_NegativeParkFactorRaises ==
    (/\ op \in {"calculate_wrc_plus", "calculate_ops_plus",
                "calculate_comprehensive_player_metrics"}
     /\ RLt(park_factor, Zero))
        => result.kind = "raise"

\* C4: calculate_ops_plus with league_obp <= 0 or league_slg <= 0 and a positive
\* park_factor ends in an error; it never returns a number built on a fallback ratio.
C4_NonPositiveLeagueBaselineRaises ==
    (/\ op = "calculate_ops_plus"
     /\ RGt(park_factor, Zero)
     /\ (RLe(league_obp, Zero) \/ RLe(league_slg, Zero)))
        => result.kind = "raise"

ZeroAtBats ==
    /\ op \in {"calculate_basic_stats", "calculate_iso"}
    /\ WellFormed(stats)
    /\ Get(stats, "AB", 0) = 0

\* C5 as stated: for every well-formed record with AB = 0, calculate_basic_stats
\* returns AVG = OBP = SLG = OPS = 0 and calculate_iso returns 0.
C5_ZeroAtBatsAllZero ==
    ZeroAtBats =>
        IF op = "calculate_basic_stats"
        THEN \A m \in BasicStatNames : result.value[m] = Zero
        ELSE result.value = Zero

\* C5 as amended: for every well-formed record with AB = 0, calculate_basic_stats
\* returns AVG = SLG = 0 and OPS = OBP, where OBP is (H + BB + HBP)/(BB + SF + HBP)
\* when BB + SF + HBP > 0 and 0 otherwise, and calculate_iso returns 0.
C5_ZeroAtBatsAmended ==
    ZeroAtBats =>
        IF op = "calculate_basic_stats"
        THEN LET reached == Get(stats, "H", 0) + Get(stats, "BB", 0) + Get(stats, "HBP", 0)
                 pa == Get(stats, "BB", 0) + Get(stats, "SF", 0) + Get(stats, "HBP", 0)
             IN  /\ result.value["AVG"] = Zero
                 /\ result.value["SLG"] = Zero
                 /\ result.value["OPS"] = result.value["OBP"]
                 /\ result.value["OBP"] = IF pa > 0 THEN Frac(reached, pa) ELSE Zero
        ELSE result.value = Zero

\* a walk and no at-bat: OBP is 1
C5_Witness ==
    /\ ZeroAtBats
    /\ op = "calculate_basic_stats"
    /\ Get(stats, "BB", 0) > 0
    /\ result.value["OBP"] # Zero

\* C6: at park_factor 1.0 a record whose wOBA is the league wOBA gets wRC+ = 100,
\* a record above the league wOBA gets more than 100 and one below gets less.
C6_LeagueAverageIs100 ==
    (Returned("calculate_wrc_plus") /\ park_factor = One)
        => LET woba == calculate_woba(stats)
               league == league_constants["wOBA_league"]
           IN  /\ woba = league => result.value = R(100)
               /\ RGt(woba, league) => RGt(result.value, R(100))
               /\ RLt(woba, league) => RLt(result.value, R(100))

\* a call of calculate_wrc_plus that returned, at a positive park factor, with doubles
WrcPlusBinary64Returned ==
    /\ Returned("calculate_wrc_plus")
    /\ park_factor \in Binary64ParkFactors
    /\ FGt(park_factor, FZero)

\* C7 as stated: for a fixed park_factor > 0, a record with a smaller wOBA gets a
\* strictly smaller wRC+: the wRC+ returned for the caller's record is below that
\* of every record with a larger wOBA and above that of every record with a
\* smaller wOBA.
C7_WrcPlusStrictlyMonotone ==
    WrcPlusBinary64Returned
        => \A r2 \in Binary64Records :
              /\ FLt(Binary64Woba[stats], Binary64Woba[r2])
                    => FLt(result.value, Binary64WrcPlus[r2][park_factor].value)
              /\ FLt(Binary64Woba[r2], Binary64Woba[stats])
                    => FLt(Binary64WrcPlus[r2][park_factor].value, result.value)

\* C7 as amended: for a fixed park_factor > 0, a record with a smaller wOBA never
\* gets a larger wRC+ (the two wRC+ may be equal).
C7_WrcPlusMonotone ==
    WrcPlusBinary64Returned
        => \A r2 \in Binary64Records :
              /\ FLt(Binary64Woba[stats], Binary64Woba[r2])
                    => FLe(result.value, Binary64WrcPlus[r2][park_factor].value)
              /\ FLt(Binary64Woba[r2], Binary64Woba[stats])
                    => FLe(Binary64WrcPlus[r2][park_factor].value, result.value)

\* two records whose wOBA differ and whose wRC+ are the same double
C7_Witness ==
    /\ WrcPlusBinary64Returned
    /\ \E r2 \in Binary64Records :
          /\ FLt(Binary64Woba[stats], Binary64Woba[r2])
          /\ result.value = Binary64WrcPlus[r2][park_factor].value

\* C8: calculate_iso is exactly SLG - AVG of calculate_basic_stats for any record,
\* also when AVG > SLG, and the ISO entry of the comprehensive metric set is its
\* SLG entry minus its AVG entry.
C8_IsoIsSlgMinusAvg ==
    /\ Returned("calculate_iso")
          => LET basic == calculate_basic_stats(stats)
             IN  result.value = RSub(basic["SLG"], basic["AVG"])
    /\ Returned("calculate_comprehensive_player_metrics")
          => result.value["ISO"] = RSub(result.value["SLG"], result.value["AVG"])

\* an inconsistent record with AVG > SLG: the ISO entry is negative
C8_Witness ==
    /\ Returned("calculate_comprehensive_player_metrics")
    /\ RGt(result.value["AVG"], result.value["SLG"])
    /\ RLt(result.value["ISO"], Zero)

\* C9: for every metric emitted, the difference of compare_players(A, B) is the
\* exact negative of the difference of compare_players(B, A), and the player1 and
\* player2 values are exchanged.
C9_CompareAntisymmetric ==
    Returned("compare_players")
        => LET back == compare_players(stats2, stats, metrics)
           IN  /\ back.kind = "return"
               /\ DOMAIN back.value = DOMAIN result.value
               /\ \A m \in DOMAIN result.value :
                     /\ result.value[m].difference = RNeg(back.value[m].difference)
                     /\ result.value[m].player1 = back.value[m].player2
                     /\ result.value[m].player2 = back.value[m].player1

\* a comparison with a metric on which player 2 is ahead
C9_Witness ==
    /\ Returned("compare_players")
    /\ \E m \in DOMAIN result.value : RLt(result.value[m].difference, Zero)

\* C10: the better-flag of a metric is true exactly when player 1's value is
\* strictly greater than player 2's; on a tie it is false in both directions,
\* and it is never true in both directions.
C10_BetterFlagStrict ==
    Returned("compare_players")
        => LET back == compare_players(stats2, stats, metrics)
           IN  \A m \in DOMAIN result.value :
                 LET e == result.value[m]
                 IN  /\ e.player1_better = RGt(e.player1, e.player2)
                     /\ e.player1 = e.player2
                           => ~e.player1_better /\ ~back.value[m].player1_better
                     /\ ~(e.player1_better /\ back.value[m].player1_better)

\* two different records tied on one metric and apart on another
C10_Witness ==
    /\ Returned("compare_players")
    /\ stats # stats2
    /\ \E m \in DOMAIN result.value : result.value[m].player1 = result.value[m].player2
    /\ \E m \in DOMAIN result.value : result.value[m].player1_better

\* C11: compare_players returns, without error, an entry for exactly the
\* requested names that both comprehensive metric sets contain; a requested name
\* that is no computed metric is left out, and without a list the entries are
\* AVG, OBP, SLG, OPS, wOBA, wRC+, BABIP and ISO.
C11_CompareEmitsRequestedMetrics ==
    op = "compare_players"
        => LET p1 == calculate_comprehensive_player_metrics(stats, One).value
               p2 == calculate_comprehensive_player_metrics(stats2, One).value
               requested == IF metrics.is_none
                            THEN {"AVG", "OBP", "SLG", "OPS", "wOBA", "wRC+", "BABIP", "ISO"}
                            ELSE Range(metrics.names)
           IN  /\ result.kind = "return"
               /\ DOMAIN result.value
                     = {m \in requested : m \in DOMAIN p1 /\ m \in DOMAIN p2}
               /\ DOMAIN p1 = MetricNames /\ DOMAIN p2 = MetricNames

\* a request naming a computed metric and a name that is none: one entry
C11_Witness ==
    /\ Returned("compare_players")
    /\ ~metrics.is_none
    /\ "WAR" \in Range(metrics.names)
    /\ DOMAIN result.value = {"AVG"}

\* the record s with innings pitched ip
WithIP(s, ip) == [k \in DOMAIN s \cup {"IP"} |-> IF k = "IP" THEN ip ELSE s[k]]

\* C12: K_BB_ratio of calculate_pitcher_metrics is K/BB when BB > 0, K when
\* BB = 0 and K > 0, and 0 when both are 0; the call raises nothing, and the
\* ratio is the same whatever the innings pitched of the record.
C12_StrikeoutWalkRatio ==
    op = "calculate_pitcher_metrics"
        => LET k == Get(stats, "K", 0)
               bb == Get(stats, "BB", 0)
           IN  /\ result.kind = "return"
               /\ bb > 0 => result.value["K_BB_ratio"] = Frac(k, bb)
               /\ bb = 0 /\ k > 0 => result.value["K_BB_ratio"] = R(k)
               /\ bb = 0 /\ k = 0 => result.value["K_BB_ratio"] = Zero
               /\ \A ip \in {R(-1), Zero, Frac(1, 10), R(7)} :
                     calculate_pitcher_metrics(WithIP(stats, ip))["K_BB_ratio"]
                        = result.value["K_BB_ratio"]

\* two strikeouts, no walk and no inning on the record: the ratio is 2
C12_Witness ==
    /\ Returned("calculate_pitcher_metrics")
    /\ Get(stats, "BB", 0) = 0
    /\ Get(stats, "K", 0) = 2
    /\ ~RGt(GetIP(stats), Zero)
    /\ result.value["K_BB_ratio"] = R(2)

\* C13: for the record of demo_sabermetrics the engine yields, rounded to three
\* decimals, AVG = 0.283, OBP = 0.394, SLG = 0.490, OPS = 0.884 and ISO = 0.207.
C13_DemoRecordRounded ==
    stats = trout_stats
        => /\ Returned("calculate_basic_stats")
                => /\ FFormats(result.value["AVG"], 283, 3)
                   /\ FFormats(result.value["OBP"], 394, 3)
                   /\ FFormats(result.value["SLG"], 490, 3)
                   /\ FFormats(result.value["OPS"], 884, 3)
           /\ Returned("calculate_iso") => FFormats(result.value, 207, 3)

\* C13, amended: for the record of demo_sabermetrics the engine yields, rounded
\* to three decimals, AVG = 0.283, OBP = 0.397, SLG = 0.522, OPS = 0.919 and
\* ISO = 0.239.
C13_DemoRecordRoundedAmended ==
    stats = trout_stats
        => /\ Returned("calculate_basic_stats")
                => /\ FFormats(result.value["AVG"], 283, 3)
                   /\ FFormats(result.value["OBP"], 397, 3)
                   /\ FFormats(result.value["SLG"], 522, 3)
                   /\ FFormats(result.value["OPS"], 919, 3)
           /\ Returned("calculate_iso") => FFormats(result.value, 239, 3)

\* the basic stats of the demo record have been computed
C13_Witness ==
    /\ Returned("calculate_basic_stats")
    /\ stats = trout_stats
    /\ result.value["AVG"] = FLit(134, 473)

\* C14: for the pitcher record {IP: 222.2, ER: 65, H: 180, BB: 45, K: 222,
\* HR: 28, HBP: 7} calculate_pitcher_metrics yields ERA = 2.63 and WHIP = 1.01
\* when rounded to two decimals (and so it does with IP read as 222 2/3).
C14_SamplePitcherRounded ==
    stats = gerrit_cole_stats /\ op = "calculate_pitcher_metrics"
        => /\ result.kind = "return"
           /\ RoundTo(result.value["ERA"], 2) = Frac(263, 100)
           /\ RoundTo(result.value["WHIP"], 2) = Frac(101, 100)
           /\ RoundTo(calculate_pitcher_metrics(WithIP(stats, Frac(668, 3)))["ERA"], 2)
                = Frac(263, 100)
           /\ RoundTo(calculate_pitcher_metrics(WithIP(stats, Frac(668, 3)))["WHIP"], 2)
                = Frac(101, 100)

\* the metrics of the sample record have been computed: ERA is 585/222.2
C14_Witness ==
    /\ Returned("calculate_pitcher_metrics")
    /\ stats = gerrit_cole_stats
    /\ result.value["ERA"] = Frac(5850, 2222)
    /\ result.value["WHIP"] = Frac(2250, 2222)

\* innings written N.1 or N.2 read as N + 1/3 or N + 2/3
InningsInThirds(ip) ==
    RAdd(R(RFloor(ip)), RDiv(RSub(RMul(ip, R(10)), R(10 * RFloor(ip))), R(3)))

\* C15: an innings-pitched value written N.1 or N.2 is interpreted as N + 1/3
\* or N + 2/3 innings in every pitcher rate: the divisor used by ERA, WHIP, FIP
\* and the per-9 rates is the innings in thirds (186 + 2/3 for IP = 186.2), not
\* the decimal value.
C15_InningsInThirds ==
    op = "calculate_pitcher_metrics" /\ RGt(GetIP(stats), Zero)
        => LET ip == InningsInThirds(GetIP(stats))
               hr == Get(stats, "HR", 0)
               bb == Get(stats, "BB", 0)
               hbp == Get(stats, "HBP", 0)
               k == Get(stats, "K", 0)
           IN  /\ result.kind = "return"
               /\ result.value["ERA"] = RDiv(R(Get(stats, "ER", 0) * 9), ip)
               /\ result.value["WHIP"] = RDiv(R(bb + Get(stats, "H", 0)), ip)
               /\ result.value["FIP"]
                    = RAdd(RDiv(R(13 * hr + 3 * (bb + hbp) - 2 * k), ip),
                           league_constants["FIP_constant"])
               /\ result.value["K_per_9"] = RDiv(R(k * 9), ip)
               /\ result.value["BB_per_9"] = RDiv(R(bb * 9), ip)
               /\ result.value["HR_per_9"] = RDiv(R(hr * 9), ip)

\* the weighted sum of calculate_woba
woba_numerator(s) ==
    RAdd(RAdd(RAdd(RAdd(RAdd(
        RMul(woba_weights["uBB"], R(Get(s, "BB", 0) - Get(s, "IBB", 0))),
        RMul(woba_weights["HBP"], R(Get(s, "HBP", 0)))),
        RMul(woba_weights["1B"], R(Get(s, "1B", 0)))),
        RMul(woba_weights["2B"], R(Get(s, "2B", 0)))),
        RMul(woba_weights["3B"], R(Get(s, "3B", 0)))),
        RMul(woba_weights["HR"], R(Get(s, "HR", 0))))

\* pa of calculate_basic_stats and calculate_war_approximation
plate_appearances(s) == Get(s, "AB", 0) + Get(s, "BB", 0) + Get(s, "SF", 0) + Get(s, "HBP", 0)

\* C16: calculate_woba divides its weighted numerator by AB + BB + SF + HBP,
\* where BB is the total walks of the record (the plate appearances of
\* calculate_basic_stats and calculate_war_approximation), for every record,
\* those with IBB > 0 included.
C16_WobaDividesByPlateAppearances ==
    op = "calculate_woba"
        => /\ result.kind = "return"
           /\ plate_appearances(stats) > 0
                => result.value = RDiv(woba_numerator(stats), R(plate_appearances(stats)))
           /\ plate_appearances(stats) <= 0 => result.value = Zero

\* the record s with '1B' set to h - 2B - 3B - HR, the default of line 58
WithDerivedSingles(s) ==
    [k \in DOMAIN s \cup {"1B"} |->
        IF k = "1B"
        THEN Get(s, "H", 0) - Get(s, "2B", 0) - Get(s, "3B", 0) - Get(s, "HR", 0)
        ELSE s[k]]

\* C17: for a record that has no '1B' key, singles are resolved as
\* H - 2B - 3B - HR in every operation that uses singles: calculate_woba and
\* calculate_basic_stats each give the same result as for the same record with
\* '1B' set explicitly to H - 2B - 3B - HR.
C17_SinglesDerivedWhenAbsent ==
    "1B" \notin DOMAIN stats
        => /\ op = "calculate_woba"
                => result = Return(calculate_woba(WithDerivedSingles(stats)))
           /\ op = "calculate_basic_stats"
                => result = Return(calculate_basic_stats(WithDerivedSingles(stats)))

\* denominator of calculate_woba
woba_denominator(s) ==
    Get(s, "AB", 0) + (Get(s, "BB", 0) - Get(s, "IBB", 0)) + Get(s, "SF", 0) + Get(s, "HBP", 0)

\* balls_in_play of calculate_babip
balls_in_play(s) == Get(s, "AB", 0) - Get(s, "K", 0) - Get(s, "HR", 0) + Get(s, "SF", 0)

\* the ratios of the metric set m whose denominator in s is not positive are 0
ZeroWhereNotPositive(s, m) ==
    /\ Get(s, "AB", 0) <= 0 /\ "AVG" \in DOMAIN m => m["AVG"] = Zero /\ m["SLG"] = Zero
    /\ plate_appearances(s) <= 0 /\ "OBP" \in DOMAIN m => m["OBP"] = Zero
    /\ woba_denominator(s) <= 0 /\ "wOBA" \in DOMAIN m => m["wOBA"] = Zero
    /\ balls_in_play(s) <= 0 /\ "BABIP" \in DOMAIN m => m["BABIP"] = Zero
    /\ Get(s, "AB", 0) + Get(s, "BB", 0) <= 0 /\ "BB_Rate" \in DOMAIN m
            => m["BB_Rate"] = Zero /\ m["K_Rate"] = Zero

\* C18: every batting ratio whose data-derived denominator is zero or negative
\* is exactly 0 and nothing is raised: AVG and SLG when AB <= 0, OBP and wOBA
\* when their plate-appearance denominator <= 0, BABIP when
\* AB - K - HR + SF <= 0, BB_Rate and K_Rate when AB + BB <= 0.  (The only
\* exception calculate_comprehensive_player_metrics lets through is the one of
\* a park factor of 0.)
C18_NonPositiveDenominatorGivesZero ==
    /\ op = "calculate_basic_stats"
            => result.kind = "return" /\ ZeroWhereNotPositive(stats, result.value)
    /\ op = "calculate_woba"
            => /\ result.kind = "return"
               /\ woba_denominator(stats) <= 0 => result.value = Zero
    /\ op = "calculate_babip"
            => /\ result.kind = "return"
               /\ balls_in_play(stats) <= 0 => result.value = Zero
    /\ op = "calculate_comprehensive_player_metrics"
            => /\ result.kind = "raise" => park_factor = Zero
               /\ result.kind = "return" => ZeroWhereNotPositive(stats, result.value)

\* the full metric set of a record with a single and a strikeout but no 'AB'
\* key, computed with the default park factor: balls_in_play is -1 and
\* hits_in_play is 1, AB and AB + BB are 0
C18_Witness ==
    /\ Returned("calculate_comprehensive_player_metrics")
    /\ balls_in_play(stats) < 0
    /\ Get(stats, "H", 0) - Get(stats, "HR", 0) > 0
    /\ Get(stats, "AB", 0) + Get(stats, "BB", 0) = 0
    /\ result.value["BABIP"] = Zero
    /\ result.value["BB_Rate"] = Zero
    /\ result.value["AVG"] = Zero

\* C19: for any pitcher record with IP <= 0, calculate_pitcher_metrics returns
\* ERA = WHIP = FIP = K_per_9 = BB_per_9 = HR_per_9 = 0 and raises nothing (FIP
\* is 0, not FIP_constant), and the result always has exactly the keys ERA,
\* WHIP, FIP, K_per_9, BB_per_9, HR_per_9 and K_BB_ratio.
C19_NoInningsAllRatesZero ==
    op = "calculate_pitcher_metrics"
        => /\ result.kind = "return"
           /\ DOMAIN result.value
                = {"ERA", "WHIP", "FIP", "K_per_9", "BB_per_9", "HR_per_9", "K_BB_ratio"}
           /\ RLe(GetIP(stats), Zero)
                => \A m \in {"ERA", "WHIP", "FIP", "K_per_9", "BB_per_9", "HR_per_9"} :
                      result.value[m] = Zero

\* the metrics of a record with a home run, a strikeout and IP = -0.1
C19_Witness ==
    /\ Returned("calculate_pitcher_metrics")
    /\ RLt(GetIP(stats), Zero)
    /\ Get(stats, "HR", 0) > 0
    /\ Get(stats, "K", 0) > 0
    /\ result.value["FIP"] = Zero
    /\ result.value["ERA"] = Zero
    /\ result.value["K_BB_ratio"] = One

\* the FIP in the outcome of calculate_pitcher_fip or calculate_pitcher_metrics
ReturnedFip == IF op = "calculate_pitcher_fip" THEN result.value ELSE result.value["FIP"]

\* C20: for IP > 0, FIP equals (13*HR + 3*(BB+HBP) - 2*K)/IP + FIP_constant and
\* is never clamped: for records with strikeouts enough and no HR, BB or HBP the
\* returned FIP is negative.
C20_FipUnclamped ==
    op \in {"calculate_pitcher_fip", "calculate_pitcher_metrics"} /\ RGt(GetIP(stats), Zero)
        => LET hr == Get(stats, "HR", 0)
               bb == Get(stats, "BB", 0)
               hbp == Get(stats, "HBP", 0)
               k == Get(stats, "K", 0)
           IN  /\ result.kind = "return"
               /\ RMul(RSub(ReturnedFip, Frac(310, 100)), GetIP(stats))
                    = R(13 * hr + 3 * (bb + hbp) - 2 * k)
               /\ (hr = 0 /\ bb = 0 /\ hbp = 0
                   /\ RGt(R(2 * k), RMul(Frac(310, 100), GetIP(stats))))
                        => RLt(ReturnedFip, Zero)

\* three strikeouts in one inning and nothing else: FIP is -6 + 3.10 = -2.90
C20_Witness ==
    /\ Returned("calculate_pitcher_fip")
    /\ GetIP(stats) = One
    /\ Get(stats, "K", 0) = 3
    /\ result.value = Frac(-29, 10)

\* C21: calculate_war_approximation returns max(0, offensive_value +
\* position_adjustment + replacement_level) with offensive_value =
\* ((wRC+ - 100)/100)*(PA/700)*20 and replacement_level = 2.0*(PA/700); the
\* result is never negative, whatever the record and the position.
C21_WarFlooredAtZero ==
    op = "calculate_war_approximation"
        => LET wrc == calculate_wrc_plus(stats, One).value
               adj == IF position \in DOMAIN position_adjustments
                      THEN position_adjustments[position] ELSE Zero
               \* (PA/700) * ((wRC+ - 100)/5 + adjustment + 2)
               total == RMul(Frac(plate_appearances(stats), 700),
                             RAdd(RAdd(RDiv(RSub(wrc, R(100)), R(5)), adj), R(2)))
           IN  /\ result.kind = "return"
               /\ RGt(total, Zero) => result.value = total
               /\ RLe(total, Zero) => result.value = Zero
               /\ ~RLt(result.value, Zero)

\* a record of negated counts (PA < 0): the sum is negative and 0 is returned
C21_Witness ==
    /\ Returned("calculate_war_approximation")
    /\ plate_appearances(stats) < 0
    /\ RLt(war_approx(stats, fielding_stats, position), Zero)
    /\ result.value = Zero

\* C22: in a call calculate_war_approximation(record, position) the position
\* given as the second argument selects the adjustment: the total includes
\* table[position]*(PA/700) for a known code and 0 for an unknown one, so two
\* known positions with different table values give different unfloored totals
\* for the same record with PA > 0.
C22_SecondArgumentSelectsAdjustment ==
    op = "calculate_war_approximation" /\ fielding_stats.type = "str"
        => LET given == fielding_stats.value
               total == war_approx(stats, PyNone, given)
           IN  /\ result.kind = "return"
               /\ result.value = IF RGt(total, Zero) THEN total ELSE Zero
               /\ \A other \in DOMAIN position_adjustments :
                     (/\ given \in DOMAIN position_adjustments
                      /\ position_adjustments[other] # position_adjustments[given]
                      /\ plate_appearances(stats) > 0)
                        => war_approx(stats, PyNone, other) # total

\* C23: calculate_comprehensive_player_metrics(record, park_factor) returns
\* exactly the keys AVG, OBP, SLG, OPS, wOBA, wRC+, BABIP, ISO, OPS+, BB_Rate and
\* K_Rate, and each value is what the individual function returns for the same
\* record and park factor (BB_Rate = BB/(AB+BB), K_Rate = K/(AB+BB)); it raises
\* only where calculate_wrc_plus or calculate_ops_plus does.
C23_ComprehensiveIsUnionOfMetrics ==
    op = "calculate_comprehensive_player_metrics"
        => LET wrc == calculate_wrc_plus(stats, park_factor)
               opsp == calculate_ops_plus(stats, park_factor, DefaultLeagueObp, DefaultLeagueSlg)
               abbb == Get(stats, "AB", 0) + Get(stats, "BB", 0)
               m == result.value
           IN  /\ result.kind = "raise" <=> (wrc.kind = "raise" \/ opsp.kind = "raise")
               /\ result.kind = "return"
                    => /\ DOMAIN m = {"AVG", "OBP", "SLG", "OPS", "wOBA", "wRC+", "BABIP",
                                      "ISO", "OPS+", "BB_Rate", "K_Rate"}
                       /\ \A k \in {"AVG", "OBP", "SLG", "OPS"} :
                             m[k] = calculate_basic_stats(stats)[k]
                       /\ m["wOBA"] = calculate_woba(stats)
                       /\ m["wRC+"] = wrc.value
                       /\ m["BABIP"] = calculate_babip(stats)
                       /\ m["ISO"] = calculate_iso(stats)
                       /\ m["OPS+"] = opsp.value
                       /\ abbb > 0 => /\ m["BB_Rate"] = Frac(Get(stats, "BB", 0), abbb)
                                      /\ m["K_Rate"] = Frac(Get(stats, "K", 0), abbb)

\* the metric set of a record with a walk and a strikeout at park factor 0.95
C23_Witness ==
    /\ Returned("calculate_comprehensive_player_metrics")
    /\ park_factor = Frac(19, 20)
    /\ Get(stats, "BB", 0) = 1
    /\ Get(stats, "K", 0) = 1
    /\ result.value["BB_Rate"] = Frac(1, 2)
    /\ result.value["K_Rate"] = Frac(1, 2)
    /\ result.value["wRC+"] # calculate_wrc_plus(stats, One).value

\* C24: calculate_basic_stats computes PA = AB + BB + SF + HBP, AVG = H/AB,
\* OBP = (H + BB + HBP)/PA, SLG = (1B + 2*2B + 3*3B + 4*HR)/AB and
\* OPS = OBP + SLG for every record with AB > 0 and PA > 0, and OPS is
\* OBP + SLG for every record.
C24_BasicStatsFormulas ==
    op = "calculate_basic_stats"
        => LET ab == Get(stats, "AB", 0)
               h == Get(stats, "H", 0)
               doubles == Get(stats, "2B", 0)
               triples == Get(stats, "3B", 0)
               hr == Get(stats, "HR", 0)
               singles == IF "1B" \in DOMAIN stats THEN stats["1B"]
                          ELSE h - doubles - triples - hr
               pa == ab + Get(stats, "BB", 0) + Get(stats, "SF", 0) + Get(stats, "HBP", 0)
               m == result.value
           IN  /\ result.kind = "return"
               /\ m["OPS"] = RAdd(m["OBP"], m["SLG"])
               /\ (ab > 0 /\ pa > 0)
                    => /\ RMul(m["AVG"], R(ab)) = R(h)
                       /\ RMul(m["OBP"], R(pa))
                            = R(h + Get(stats, "BB", 0) + Get(stats, "HBP", 0))
                       /\ RMul(m["SLG"], R(ab))
                            = R(singles + 2 * doubles + 3 * triples + 4 * hr)

\* the basic stats of a record with a home run and a walk: AVG 1, OBP 1, SLG 4
C24_Witness ==
    /\ Returned("calculate_basic_stats")
    /\ Get(stats, "AB", 0) = 1
    /\ Get(stats, "HR", 0) = 1
    /\ Get(stats, "BB", 0) = 1
    /\ result.value["SLG"] = R(4)
    /\ result.value["OBP"] = One
    /\ result.value["OPS"] = R(5)

\* C25: after any sequence of engine operations (basic stats, wOBA, wRC+, BABIP,
\* ISO, OPS+, comprehensive, pitcher metrics, compare_players, WAR) the league
\* constants and the linear weights of the engine are those of its construction,
\* and no step adds, removes or modifies a key of the record passed in.
C25_EngineAndRecordsUnchanged ==
    /\ [](league_constants = InitLeagueConstants /\ woba_weights = InitWobaWeights)
    /\ [][stats' = stats]_vars

\* calculate_pitcher_metrics has returned on a pitching record with a strikeout
C25_Witness ==
    /\ Returned("calculate_pitcher_metrics")
    /\ "IP" \in DOMAIN stats
    /\ Get(stats, "K", 0) = 1
    /\ league_constants = InitLeagueConstants
    /\ woba_weights = InitWobaWeights

\* C26: when several callers invoke operations on one shared engine in any
\* interleaving, each call returns what it returns when run alone on a fresh
\* engine with the same arguments, whatever calls came before or overlap it.
C26_SharedEngineCallsIndependent ==
    \A c \in Callers :
        callers[c].pc = "done"
            => /\ callers[c].op = "calculate_wrc_plus"
                    => callers[c].result
                         = calculate_wrc_plus(callers[c].stats, callers[c].park_factor)
               /\ callers[c].op = "calculate_iso"
                    => callers[c].result = Return(calculate_iso(callers[c].stats))

\* caller 1 has its wRC+ while caller 2, on another record, is between its two
\* statements: the call of caller 2 overlapped the one of caller 1
C26_Witness ==
    /\ callers[1].pc = "done"
    /\ callers[1].op = "calculate_wrc_plus"
    /\ callers[2].pc = "wrc_plus"
    /\ callers[1].stats # callers[2].stats
    /\ callers[2].woba # callers[1].woba
    /\ callers[1].result = calculate_wrc_plus(callers[1].stats, callers[1].park_factor)

\* C27: when a record has no '1B' key and H < 2B + 3B + HR, the singles count
\* that calculate_basic_stats uses for total bases and SLG is 0, not the
\* negative difference.
C27_NegativeSinglesTreatedAsZero ==
    (/\ op = "calculate_basic_stats"
     /\ "1B" \notin DOMAIN stats
     /\ Get(stats, "H", 0) < Get(stats, "2B", 0) + Get(stats, "3B", 0) + Get(stats, "HR", 0)
     /\ Get(stats, "AB", 0) > 0)
        => /\ result.kind = "return"
           /\ RMul(result.value["SLG"], R(Get(stats, "AB", 0)))
                = R(2 * Get(stats, "2B", 0) + 3 * Get(stats, "3B", 0) + 4 * Get(stats, "HR", 0))

\* the first split of the response, in the order of the two loops
RECURSIVE FirstSplitOf(_)
FirstSplitOf(groups) ==
    IF groups = <<>> THEN <<>>
    ELSE IF Splits(Head(groups)) # <<>> THEN <<Head(Splits(Head(groups)))>>
    ELSE FirstSplitOf(Tail(groups))

\* C28: process_batting_stats (and likewise process_pitching_stats) builds the
\* record it returns from the first split of the response: when the response
\* holds several stat groups or several splits, the record comes from the first
\* split encountered and no later group or split overwrites it.
C28_RecordFromFirstSplit ==
    /\ Returned("process_batting_stats") \/ Returned("process_pitching_stats")
            => LET first == FirstSplitOf(StatGroups(stats_data))
               IN  IF first = <<>> \/ StatsRaise(op, first[1])
                   THEN result.value = EmptyStats
                   ELSE result.value = StatsOf(op, first[1])
    /\ [][batting_stats # EmptyStats /\ stat_group' # 0 /\ op' = op
            => batting_stats' = batting_stats]_vars

EngineMethods ==
    {"calculate_basic_stats", "calculate_woba", "calculate_wrc_plus", "calculate_babip",
     "calculate_iso", "calculate_ops_plus", "calculate_comprehensive_player_metrics",
     "compare_players", "calculate_war_approximation", "calculate_pitcher_fip",
     "calculate_pitcher_whip", "calculate_pitcher_metrics"}

\* C29: any failure of a fetch in the data collector (get_player_stats,
\* get_team_stats, get_team_roster, get_league_leaders) is reported as an empty
\* result with no exception reaching the caller, and feeding that empty result
\* through process_batting_stats gives an empty record on which every engine
\* operation completes without raising.  The park factor the caller passes
\* is not zero: the division by it does not depend on the record.
C29_FetchFailureGivesEmptyRecord ==
    /\ op \in FetchMethods => result.kind = "return"
    /\ op \in FetchMethods /\ response.kind = "raise" => result.value = <<>>
    /\ Returned("process_batting_stats") /\ response.kind = "raise"
            => stats_data = EmptyStats /\ result.value = EmptyStats
    /\ (/\ op \in EngineMethods
        /\ response.kind = "raise"
        /\ park_factor # Zero)
            => stats = EmptyStats /\ result.kind = "return"

\* a fetch failed, its empty result was processed, and the engine was called on
\* the record
C29_Witness ==
    /\ response.kind = "raise"
    /\ op = "calculate_comprehensive_player_metrics"
    /\ stats = EmptyStats
    /\ result.kind = "return"

\* the names in the player list of a team
TeamNames(t) == {team_stats[t].players[i]["name"] : i \in 1..Len(team_stats[t].players)}

\* the sum of a count of the stats of the batters named in ns
RECURSIVE SumOfBatters(_, _)
SumOfBatters(ns, k) ==
    IF ns = {} THEN 0
    ELSE LET n == CHOOSE n \in ns : TRUE
         IN  sample_data[n].stats[k] + SumOfBatters(ns \ {n}, k)

RECURSIVE SumOfCounts(_)
SumOfCounts(ts) ==
    IF ts = {} THEN 0
    ELSE LET t == CHOOSE t \in ts : TRUE
         IN  Len(team_stats[t].players) + SumOfCounts(ts \ {t})

\* C30: in the team aggregation, after all batters are processed each batter
\* appears in exactly one team's player list (the list of its own team), every
\* team entry holds at least one player so the per-team average of wRC+ and OPS
\* never divides by zero, the player counts over all teams sum to the number of
\* batters, and each team's total_hr and total_rbi equal the sums over its
\* players.
C30_TeamAggregation ==
    /\ op = "demo_team_analysis" => result.kind # "raise"
    /\ op = "demo_team_analysis"
            => \A t \in DOMAIN team_stats : Len(team_stats[t].players) >= 1
    /\ op = "demo_team_analysis" /\ (player > Len(sample_data) \/ result.kind = "return")
            => /\ \A n \in 1..Len(sample_data) : \A t \in DOMAIN team_stats :
                      Cardinality({i \in 1..Len(team_stats[t].players) :
                                      team_stats[t].players[i]["name"] = n})
                          = IF t = sample_data[n].team THEN 1 ELSE 0
               /\ \A n \in 1..Len(sample_data) : sample_data[n].team \in DOMAIN team_stats
               /\ \A t \in DOMAIN team_stats : Len(team_stats[t].players) >= 1
               /\ SumOfCounts(DOMAIN team_stats) = Len(sample_data)
               /\ \A t \in DOMAIN team_stats :
                      /\ team_stats[t].total_hr = SumOfBatters(TeamNames(t), "HR")
                      /\ team_stats[t].total_rbi = SumOfBatters(TeamNames(t), "RBI")

\* the rows are printed for three batters of two teams
C30_Witness ==
    /\ Returned("demo_team_analysis")
    /\ Len(sample_data) = 3
    /\ Cardinality(DOMAIN team_stats) = 2
    /\ \E t \in DOMAIN team_stats : team_stats[t].total_hr = 2

====
